---- MODULE Spec2Model ----
(***************************************************************************)
(* Model of the criminology Django project: the offense classification of  *)
(* criminals/views.py and the account-recovery flow of user/views.py.       *)
(***************************************************************************)
EXTENDS Integers, Sequences, FiniteSets, TLC

VARIABLES
    criminals,      \* table Criminal: sequence of rows, the pk is the index
    fedOffenses,    \* table FederalOffense: sequence of rows, the pk is the index
    vaOffenses,     \* table VACodeOffense: sequence of rows, the pk is the index
    links,          \* table CriminalOffenseLink, in pk (iteration) order
    response,       \* the response of the latest request to the criminals app
    users,          \* table CustomUser: pk -> row, for the rows that exist
    session,        \* the client's server-side session: its data and expiry date
    now,            \* the clock, in seconds
    uresp,          \* the response of the latest request to the user app
    wrong_answers,  \* history: wrong answers given at step 2 under this session
    cache           \* the cache: the request counters of the rate limiter

crimVars == <<criminals, fedOffenses, vaOffenses, links, response>>

userVars == <<users, session, now, uresp, wrong_answers, cache>>

vars == <<criminals, fedOffenses, vaOffenses, links, response,
          users, session, now, uresp, wrong_answers, cache>>

(***************************************************************************)
(* Bounds                                                                  *)
(***************************************************************************)
MaxLinks == 2

\* The clock advances MaxTicks times, by TickSeconds each time.
MaxTicks == 2
TickSeconds == 300

\* The requests counted on one counter of the rate limiter.
MaxRequests == 6

\* The wrong answers a client gives at step 2 under one session.
MaxWrong == 2

(***************************************************************************)
(* criminals/models.py                                                     *)
(***************************************************************************)
FELONY == "Felony"
MISDEMEANOR == "Misdemeanor"
INFRACTION == "Infraction"

\* A value of offense_type that is no key of OFFENSE_PRIORITY: the CSV import
\* stores the column as it is written, e.g. in lower case.
UnmappedType == "felony"

\* A foreign key that is NULL.
NullId == 0

\* The Python value None where an offense object is expected.
NoOffense == [table |-> "None", id |-> NullId]

\* The attributes of a Criminal instance that lead to its links:
\* CriminalOffenseLink.criminal is a ForeignKey without related_name, so the
\* reverse accessor has the default name and no other exists.
CriminalAccessors == {"criminaloffenselink_set"}

\* FederalOffense.source / VACodeOffense.source
source(offense) ==
    CASE offense.table = "FederalOffense" -> "federal"
      [] offense.table = "VACodeOffense" -> "virginia"

\* The row an offense object stands for.
OffenseRow(offense) ==
    IF offense.table = "FederalOffense"
    THEN fedOffenses[offense.id]
    ELSE vaOffenses[offense.id]

(***************************************************************************)
(* criminals/views.py: offense prioritisation                              *)
(***************************************************************************)
OFFENSE_PRIORITY == (FELONY :> 3) @@ (MISDEMEANOR :> 2) @@ (INFRACTION :> 1)

\* OFFENSE_PRIORITY.get(offense_type, 0)
PriorityOf(offense_type) ==
    IF offense_type \in DOMAIN OFFENSE_PRIORITY
    THEN OFFENSE_PRIORITY[offense_type]
    ELSE 0

\* The rows behind criminal.offense_links.all(), where the attribute exists:
\* the links of one criminal, in table order.
OffenseLinksOf(criminal) ==
    SelectSeq(links, LAMBDA l : l.criminal = criminal)

\* link.federal_offense or link.vacode_offense
LinkOffense(link) ==
    IF link.federal_offense # NullId
    THEN [table |-> "FederalOffense", id |-> link.federal_offense]
    ELSE IF link.vacode_offense # NullId
         THEN [table |-> "VACodeOffense", id |-> link.vacode_offense]
         ELSE NoOffense

\* One iteration of the loop of get_highest_offense: `cur` is the triple
\* (max_score, max_source, max_offense) before the link is looked at.
HighestStep(cur, link) ==
    LET offense == LinkOffense(link) IN
    IF offense = NoOffense
    THEN cur
    ELSE LET score == PriorityOf(OffenseRow(offense).offense_type) IN
         IF score > cur.score
         THEN [score |-> score, source |-> source(offense), offense |-> offense]
         ELSE cur

RECURSIVE HighestFrom(_, _, _)
HighestFrom(ls, i, cur) ==
    IF i > Len(ls)
    THEN cur
    ELSE HighestFrom(ls, i + 1, HighestStep(cur, ls[i]))

\* The triple (max_score, max_source, max_offense) before the loop.
NoHighest == [score |-> 0, source |-> "None", offense |-> NoOffense]

\* get_highest_offense(criminal): `error` names the exception that ends the
\* call ("None" when it returns). The first statement reads
\* criminal.offense_links, which raises AttributeError on an object that has
\* no such attribute.
get_highest_offense(criminal) ==
    IF "offense_links" \in CriminalAccessors
    THEN [error |-> "None"] @@ HighestFrom(OffenseLinksOf(criminal), 1, NoHighest)
    ELSE [error |-> "AttributeError"] @@ NoHighest

\* get_criminals_with_offenses(), once a view iterates over it: the query
\* fetches the Criminal rows and then resolves Prefetch("offense_links") on the
\* first of them; a lookup the model lacks raises AttributeError. Without rows
\* nothing is resolved.
PrefetchError ==
    IF Len(criminals) > 0 /\ "offense_links" \notin CriminalAccessors
    THEN "AttributeError"
    ELSE "None"

(***************************************************************************)
(* criminals/views.py: view_all_criminals                                  *)
(***************************************************************************)
\* str.capitalize() on the two values offense.source can take.
Capitalize(s) ==
    CASE s = "federal" -> "Federal"
      [] s = "virginia" -> "Virginia"

TopLabels ==
    {"Federal Felons", "Federal Misdemeanors", "Federal Infractions",
     "Virginia Felons", "Virginia Misdemeanors", "Virginia Infractions"}

\* f"{source.capitalize()} {offense.offense_type}s"
BucketKey(src, offense) ==
    Capitalize(src) \o " " \o OffenseRow(offense).offense_type \o "s"

\* The loop over the criminals: `categorized` is the dictionary so far.  The
\* subscript categorized[key] raises KeyError for a key the dictionary lacks,
\* which ends the request.
RECURSIVE Categorize(_, _)
Categorize(i, categorized) ==
    IF i > Len(criminals)
    THEN [error |-> "None", categorized |-> categorized]
    ELSE LET h == get_highest_offense(i) IN
         IF h.error # "None"
         THEN [error |-> h.error, categorized |-> categorized]
         ELSE IF h.offense = NoOffense
         THEN Categorize(i + 1, categorized)
         ELSE LET key == BucketKey(h.source, h.offense) IN
              IF key \notin DOMAIN categorized
              THEN [error |-> "KeyError", categorized |-> categorized]
              ELSE Categorize(i + 1,
                       [categorized EXCEPT ![key] = Append(@, i)])

ViewAllResponse ==
    LET r == IF PrefetchError # "None"
             THEN [error |-> PrefetchError, categorized |-> <<>>]
             ELSE Categorize(1, [label \in TopLabels |-> <<>>])
    IN
    IF r.error = "None"
    THEN [view |-> "all", status |-> 200, sections |-> r.categorized]
    ELSE [view |-> "all", status |-> 500, sections |-> <<>>]

view_all_criminals ==
    /\ response' = ViewAllResponse
    /\ UNCHANGED <<criminals, fedOffenses, vaOffenses, links, userVars>>

(***************************************************************************)
(* criminals/views.py: the six jurisdiction x type views                   *)
(***************************************************************************)
\* The class codes of FederalOffense.CLASS_CHOICES and VACodeOffense.CLASS_CHOICES.
CLASS_CHOICES(offense_cls) ==
    IF offense_cls = "FederalOffense"
    THEN {"A", "B", "C", "D", "E", "NA"}
    ELSE {"1", "2", "3", "4", "5", "6", "NA"}

\* The condition of filter_and_render_by_class on one criminal's highest
\* offense h: score_val == score and source == source_key and offense.
Matches(h, score, source_key) ==
    h.score = score /\ h.source = source_key /\ h.offense # NoOffense

\* The loop of filter_and_render_by_class: class_categories.setdefault(cls_val,
\* []).append(criminal) for each criminal whose highest offense matches.
RECURSIVE ClassCategorize(_, _, _, _)
ClassCategorize(i, score, source_key, class_categories) ==
    IF i > Len(criminals)
    THEN [error |-> "None", class_categories |-> class_categories]
    ELSE LET h == get_highest_offense(i) IN
         IF h.error # "None"
         THEN [error |-> h.error, class_categories |-> class_categories]
         ELSE IF Matches(h, score, source_key)
         THEN LET cls_val == OffenseRow(h.offense).offense_class
                  old == IF cls_val \in DOMAIN class_categories
                         THEN class_categories[cls_val]
                         ELSE <<>>
              IN  ClassCategorize(i + 1, score, source_key,
                      (cls_val :> Append(old, i)) @@ class_categories)
         ELSE ClassCategorize(i + 1, score, source_key, class_categories)

\* paginate_classified_criminals keeps the classes that have a criminal.
ClassSections(class_categories) ==
    [cls \in {c \in DOMAIN class_categories : class_categories[c] # <<>>}
        |-> class_categories[cls]]

FilterResponse(offense_cls, label, score, source_key) ==
    LET r == IF PrefetchError # "None"
             THEN [error |-> PrefetchError, class_categories |-> <<>>]
             ELSE ClassCategorize(1, score, source_key,
                                  [cls \in CLASS_CHOICES(offense_cls) |-> <<>>])
    IN
    IF r.error = "None"
    THEN [view |-> label, status |-> 200,
          sections |-> ClassSections(r.class_categories)]
    ELSE [view |-> label, status |-> 500, sections |-> <<>>]

filter_and_render_by_class(offense_cls, label, score, source_key) ==
    /\ response' = FilterResponse(offense_cls, label, score, source_key)
    /\ UNCHANGED <<criminals, fedOffenses, vaOffenses, links, userVars>>

view_federal_felons ==
    filter_and_render_by_class("FederalOffense", "federal_felons", 3, "federal")

view_federal_misdemeanors ==
    filter_and_render_by_class("FederalOffense", "federal_misdemeanors", 2, "federal")

view_federal_infractions ==
    filter_and_render_by_class("FederalOffense", "federal_infractions", 1, "federal")

view_state_felons ==
    filter_and_render_by_class("VACodeOffense", "state_felons", 3, "virginia")

view_state_misdemeanors ==
    filter_and_render_by_class("VACodeOffense", "state_misdemeanors", 2, "virginia")

view_state_infractions ==
    filter_and_render_by_class("VACodeOffense", "state_infractions", 1, "virginia")

(***************************************************************************)
(* The records the classification reads                                    *)
(***************************************************************************)
NoResponse == [view |-> "none", status |-> 0, sections |-> <<>>]

\* CriminalOffenseLink: a row references a federal offense, a Virginia offense
\* or neither (both foreign keys are nullable). No view writes a row that
\* references both, and such rows are not created here.
CreateLink(criminal, federal_offense, vacode_offense) ==
    /\ Len(links) < MaxLinks
    /\ links' = Append(links, [criminal |-> criminal,
                               federal_offense |-> federal_offense,
                               vacode_offense |-> vacode_offense])
    /\ response' = NoResponse
    /\ UNCHANGED <<criminals, fedOffenses, vaOffenses, userVars>>

CreateOffenseLink ==
    \E criminal \in 1..Len(criminals) :
        \/ \E f \in 1..Len(fedOffenses) : CreateLink(criminal, f, NullId)
        \/ \E v \in 1..Len(vaOffenses) : CreateLink(criminal, NullId, v)
        \/ CreateLink(criminal, NullId, NullId)

(***************************************************************************)
(* Text, hashing and the password policy                                   *)
(***************************************************************************)
\* Text whose characters matter (the security answers) is a sequence of
\* characters; usernames, e-mail addresses, questions and passwords are strings.
Whitespace == {" "}

\* str.strip(): drop the leading and the trailing whitespace.
RECURSIVE LStrip(_)
LStrip(t) ==
    IF t # <<>> /\ Head(t) \in Whitespace THEN LStrip(Tail(t)) ELSE t

RECURSIVE RStrip(_)
RStrip(t) ==
    IF t # <<>> /\ t[Len(t)] \in Whitespace
    THEN RStrip(SubSeq(t, 1, Len(t) - 1))
    ELSE t

Strip(t) == RStrip(LStrip(t))

\* The Python value None where a string is expected (a NULL column, a key the
\* session or the POST data lacks).
NoneStr == "<None>"

\* None in place of an answer: the POST data has no security_answer.
NoAnswer == << NoneStr >>

\* A NULL password-hash column (security_answer before the setup).
NoHash == [algorithm |-> "none", salt |-> "", hash |-> <<>>]

\* The salts make_password may draw.
Salts == {"s1", "s2"}

\* django.contrib.auth.hashers.make_password with the salt it drew: the encoded
\* value names the algorithm and the salt and holds the salted digest.
Encode(raw, salt) ==
    [algorithm |-> "pbkdf2_sha256", salt |-> salt, hash |-> <<salt, raw>>]

\* django.contrib.auth.hashers.check_password: False for an unusable (NULL)
\* encoded value, else the digest of raw under the stored salt is compared.
check_password(raw, encoded) ==
    /\ encoded.algorithm # "none"
    /\ Encode(raw, encoded.salt) = encoded

\* AUTH_PASSWORD_VALIDATORS, in the order of the settings. The similarity
\* validator depends on the user; the table names the passwords of the model
\* that are too close to a username.
SimilarToUsername == { <<"alice123", "alice">> }

MIN_PASSWORD_LENGTH == 8

CommonPasswords == {"password"}

NumericPasswords == {"12345678"}

\* validate_password(password, user): the set of validators that reject it.
PolicyErrors(password, user) ==
    {v \in {"similar", "short", "common", "numeric"} :
        \/ v = "similar" /\ <<password, user.username>> \in SimilarToUsername
        \/ v = "short" /\ Len(password) < MIN_PASSWORD_LENGTH
        \/ v = "common" /\ password \in CommonPasswords
        \/ v = "numeric" /\ password \in NumericPasswords}

AcceptAnyPassword(password, user) == TRUE

validate_password(password, user) == PolicyErrors(password, user) = {}

(***************************************************************************)
(* criminals/views.py: add_criminal and the CSV import mass_add_criminals   *)
(***************************************************************************)
\* str.strip() on the cells of the files of the model.
StripCell(cell) ==
    CASE cell = " john " -> "john"
      [] cell = " First_Name" -> "First_Name"
      [] cell = "Email " -> "Email"
      [] OTHER -> cell

\* str.lower() on the stripped cells of the files of the model and on the
\* class codes of the model.
LowerCell(cell) ==
    CASE cell = "John" -> "john"
      [] cell = "Doe" -> "doe"
      [] cell = "DOE" -> "doe"
      [] cell = "Jane" -> "jane"
      [] cell = "Smith" -> "smith"
      [] cell = "Federal" -> "federal"
      [] cell = "First_Name" -> "first_name"
      [] cell = "A" -> "a"
      [] cell = "B" -> "b"
      [] cell = "NA" -> "na"
      [] cell = "Email" -> "email"
      [] OTHER -> cell

expected_header ==
    << "first_name", "last_name", "offense_type", "offense_class",
       "description", "offense_source" >>

\* next(reader, None) on an empty file.
NoHeader == << NoneStr >>

\* `not header or [h.strip().lower() for h in header] != expected_header`
HeaderRejected(header) ==
    \/ header = NoHeader
    \/ [i \in 1..Len(header) |-> LowerCell(StripCell(header[i]))] # expected_header

\* The rows of one offense table that carry a triple.
TripleMatches(rows, triple) == {i \in 1..Len(rows) : rows[i] = triple}

AlwaysCreate(rows, triple) ==
    [error |-> "None", id |-> Len(rows) + 1, rows |-> Append(rows, triple)]

\* offense_model.objects.get_or_create(offense_type, offense_class,
\* description): the row with the triple if there is one, a new row if there
\* is none, MultipleObjectsReturned if there are several.
get_or_create(rows, triple) ==
    LET found == TripleMatches(rows, triple) IN
    IF Cardinality(found) > 1
    THEN [error |-> "MultipleObjectsReturned", id |-> NullId, rows |-> rows]
    ELSE IF found # {}
    THEN [error |-> "None", id |-> CHOOSE i \in found : TRUE, rows |-> rows]
    ELSE [error |-> "None", id |-> Len(rows) + 1, rows |-> Append(rows, triple)]

NewLinkBoth(criminal, offense_model, id) ==
    [criminal |-> criminal, federal_offense |-> id, vacode_offense |-> id]

\* CriminalOffenseLink.objects.create(criminal, federal_offense=offense_obj if
\* isinstance(offense_obj, FederalOffense) else None, vacode_offense=...)
NewLink(criminal, offense_model, id) ==
    [criminal |-> criminal,
     federal_offense |-> IF offense_model = "FederalOffense" THEN id ELSE NullId,
     vacode_offense |-> IF offense_model = "VACodeOffense" THEN id ELSE NullId]

\* The tables and the loop variables of an import before its first row.
ImportStart ==
    [criminals |-> criminals, fedOffenses |-> fedOffenses,
     vaOffenses |-> vaOffenses, links |-> links,
     current_criminal |-> NullId, current_name |-> << >>,
     count |-> 0, warnings |-> 0, error |-> "None"]

\* get_or_create on the table of offense_model, then the link to it.
LinkOffenseRow(st, offense_model, triple) ==
    LET got == get_or_create(IF offense_model = "FederalOffense"
                             THEN st.fedOffenses ELSE st.vaOffenses, triple)
    IN
    IF got.error # "None"
    THEN [st EXCEPT !.error = got.error]
    ELSE [st EXCEPT
            !.fedOffenses = IF offense_model = "FederalOffense" THEN got.rows ELSE @,
            !.vaOffenses = IF offense_model = "VACodeOffense" THEN got.rows ELSE @,
            !.links = Append(@, NewLink(st.current_criminal, offense_model, got.id)),
            !.count = @ + 1]

RowNameExact(fn, ln) == << fn, ln >>

\* row_name = (fn.lower(), ln.lower())
RowName(fn, ln) == << LowerCell(fn), LowerCell(ln) >>

SkipRowResets(st) ==
    [st EXCEPT !.warnings = @ + 1, !.current_name = << >>]

\* A row whose number of fields is not 6: a warning, and on to the next row.
SkipRow(st) == [st EXCEPT !.warnings = @ + 1]

\* The body of the loop of mass_add_criminals for one row.
ImportRow(st, row) ==
    IF Len(row) # 6
    THEN SkipRow(st)
    ELSE LET fn == StripCell(row[1])
             ln == StripCell(row[2])
             triple == [offense_type |-> StripCell(row[3]),
                        offense_class |-> StripCell(row[4]),
                        description |-> StripCell(row[5])]
             src == StripCell(row[6])
             row_name == RowName(fn, ln)
             st1 == IF st.current_name # row_name
                    THEN [st EXCEPT
                            !.criminals = Append(@, [first_name |-> fn,
                                                     last_name |-> ln]),
                            !.current_criminal = Len(st.criminals) + 1,
                            !.current_name = row_name]
                    ELSE st
         IN  LinkOffenseRow(st1,
                            IF LowerCell(src) = "federal"
                            THEN "FederalOffense" ELSE "VACodeOffense",
                            triple)

\* The loop over the rows; an exception ends it.
RECURSIVE ImportRows(_, _, _)
ImportRows(rows, i, st) ==
    IF i > Len(rows) \/ st.error # "None"
    THEN st
    ELSE ImportRows(rows, i + 1, ImportRow(st, rows[i]))

KeepPartial(before, after) == after

\* with transaction.atomic(): an exception that leaves the block undoes every
\* write made inside it.
Atomic(before, after) ==
    IF after.error # "None"
    THEN [before EXCEPT !.error = after.error, !.warnings = after.warnings]
    ELSE after

\* csv_file.name.endswith(".csv") on the file names of the model.
EndsWithCsv(name) ==
    CASE name \in {"criminals.csv", "users.csv"} -> TRUE
      [] name \in {"criminals.txt", "users.txt"} -> FALSE

\* What the import answers: the redirect target, the message and the count of
\* the success message, the number of warnings.
ImportResp(status, to, message, count, warnings) ==
    [view |-> "mass_add", status |-> status, to |-> to, message |-> message,
     count |-> count, warnings |-> warnings]

mass_add_criminals_get ==
    /\ response' = ImportResp(200, "criminals/mass_add_criminals.html", "", 0, 0)
    /\ UNCHANGED <<criminals, fedOffenses, vaOffenses, links, userVars>>

\* mass_add_criminals for a POST with a file, by a logged-in staff account.
\* redirect("mass_add_criminals") names a URL that criminals/urls.py does not
\* define (the import is named "mass_add"): `resolves` says whether the
\* project's URL configuration defines it. Where it does not, NoReverseMatch
\* is raised: outside the try block it ends the request, inside it is caught
\* and reported like any other exception.
mass_add_criminals_post(file, resolves) ==
    /\ Len(links) < MaxLinks
    /\ IF ~EndsWithCsv(file.name)
       THEN /\ response' = IF resolves
                           THEN ImportResp(302, "mass_add_criminals",
                                           "Please upload a valid .csv file.", 0, 0)
                           ELSE ImportResp(500, "", "NoReverseMatch", 0, 0)
            /\ UNCHANGED <<criminals, fedOffenses, vaOffenses, links>>
       ELSE IF HeaderRejected(file.header)
       THEN /\ response' = IF resolves
                           THEN ImportResp(302, "mass_add_criminals",
                                           "Invalid CSV header.", 0, 0)
                           ELSE ImportResp(302, "mass_add",
                                           "Error processing file: NoReverseMatch",
                                           0, 0)
            /\ UNCHANGED <<criminals, fedOffenses, vaOffenses, links>>
       ELSE LET out == Atomic(ImportStart, ImportRows(file.rows, 1, ImportStart)) IN
            /\ criminals' = out.criminals
            /\ fedOffenses' = out.fedOffenses
            /\ vaOffenses' = out.vaOffenses
            /\ links' = out.links
            /\ response' = IF out.error = "None"
                           THEN ImportResp(302, "mass_add", "Successfully added",
                                           out.count, out.warnings)
                           ELSE ImportResp(302, "mass_add",
                                           "Error processing file: " \o out.error,
                                           0, out.warnings)
    /\ UNCHANGED userVars

\* CriminalForm: first_name and last_name are required.
CriminalFormValid(data) == data.first_name # "" /\ data.last_name # ""

\* CriminalOffenseForm.OFFENSE_CHOICES and CriminalOffense.OFFENSE_TYPES
OFFENSE_CHOICES == {"federal", "virginia"}
OFFENSE_TYPES == {FELONY, MISDEMEANOR, INFRACTION}

\* offense_class = forms.ChoiceField(choices=[]): the form knows no class.
OffenseClassChoices == {}

\* CriminalOffenseForm.is_valid(): every field is required and a ChoiceField
\* accepts the values of its choices only.
CriminalOffenseFormValid(data) ==
    /\ data.first_name # ""
    /\ data.last_name # ""
    /\ data.description # ""
    /\ data.offense_source \in OFFENSE_CHOICES
    /\ data.offense_type \in OFFENSE_TYPES
    /\ data.offense_class \in OffenseClassChoices

AddResp(status, to, message) ==
    [view |-> "add", status |-> status, to |-> to, message |-> message,
     count |-> 0, warnings |-> 0]

add_criminal_get ==
    /\ response' = AddResp(200, "criminals/add_criminal.html", "")
    /\ UNCHANGED <<criminals, fedOffenses, vaOffenses, links, userVars>>

\* add_criminal for a POST: with two valid forms the person is saved, the
\* offense is fetched or created and linked (no transaction surrounds the
\* three writes); else the forms are rendered again.
add_criminal_post(data) ==
    /\ Len(links) < MaxLinks
    /\ IF CriminalFormValid(data) /\ CriminalOffenseFormValid(data)
       THEN LET st == [ImportStart EXCEPT
                          !.criminals = Append(@, [first_name |-> data.first_name,
                                                   last_name |-> data.last_name]),
                          !.current_criminal = Len(criminals) + 1]
                out == LinkOffenseRow(st,
                           IF data.offense_source = "federal"
                           THEN "FederalOffense" ELSE "VACodeOffense",
                           [offense_type |-> data.offense_type,
                            offense_class |-> data.offense_class,
                            description |-> data.description])
            IN  /\ criminals' = out.criminals
                /\ fedOffenses' = out.fedOffenses
                /\ vaOffenses' = out.vaOffenses
                /\ links' = out.links
                /\ response' = IF out.error = "None"
                               THEN AddResp(302, "home", "Criminal successfully added.")
                               ELSE AddResp(500, "", out.error)
       ELSE /\ response' = AddResp(200, "criminals/add_criminal.html",
                                   "There were errors in the form.")
            /\ UNCHANGED <<criminals, fedOffenses, vaOffenses, links>>
    /\ UNCHANGED userVars

\* The rows of the files of the model: John Doe with a federal felony; the
\* same person in another spelling with a Virginia misdemeanor; Jane Smith
\* with the same federal felony, the source written "Federal"; a row of three
\* fields.
CsvRows ==
    { << "John", "Doe", "Felony", "A", "Fraud", "federal" >>,
      << " john ", "DOE", "Misdemeanor", "1", "Petty theft", "virginia" >>,
      << "Jane", "Smith", "Felony", "A", "Fraud", "Federal" >>,
      << "John", "Doe", "Felony" >> }

\* The data rows of a file: up to two rows, three rows of which the third
\* repeats the first, and the two spellings of John Doe around the row of
\* three fields.
RowSeqs ==
    {<< >>} \cup {<<a>> : a \in CsvRows}
            \cup {<<a, b>> : a \in CsvRows, b \in CsvRows}
            \cup {<<a, b, a>> : a \in CsvRows, b \in CsvRows}
            \cup {<< << "John", "Doe", "Felony", "A", "Fraud", "federal" >>,
                      << "John", "Doe", "Felony" >>,
                      << " john ", "DOE", "Misdemeanor", "1", "Petty theft", "virginia" >> >>}

\* The uploads: every sequence of rows under the expected header, and two rows
\* under a header in another spelling, a header with another first cell, no
\* header and a file name without .csv.
CsvFiles ==
    LET two == << << "John", "Doe", "Felony", "A", "Fraud", "federal" >>,
                  << "Jane", "Smith", "Felony", "A", "Fraud", "Federal" >> >>
    IN  {[name |-> "criminals.csv", header |-> expected_header, rows |-> rows] :
            rows \in RowSeqs}
        \cup {[name |-> "criminals.csv", header |-> header, rows |-> two] :
                header \in {<< " First_Name", "last_name", "offense_type",
                               "offense_class", "description", "offense_source" >>,
                            << "name", "last_name", "offense_type",
                               "offense_class", "description", "offense_source" >>,
                            NoHeader}}
        \cup {[name |-> "criminals.txt", header |-> expected_header, rows |-> two]}

\* The submissions of the add form.
AddCriminalPosts ==
    { [first_name |-> "Jane", last_name |-> "Smith", description |-> "Fraud",
       offense_source |-> "federal", offense_type |-> FELONY, offense_class |-> "A"],
      [first_name |-> "John", last_name |-> "Doe", description |-> "Petty theft",
       offense_source |-> "virginia", offense_type |-> MISDEMEANOR, offense_class |-> "1"],
      [first_name |-> "Jane", last_name |-> "Smith", description |-> "Fraud",
       offense_source |-> "federal", offense_type |-> FELONY, offense_class |-> ""] }

\* The Virginia offense that is on file twice where the admin site was used
\* to enter it twice.
PettyTheft ==
    [offense_type |-> "Misdemeanor", offense_class |-> "1", description |-> "Petty theft"]

(***************************************************************************)
(* criminals/views.py: the pagination of the sections                      *)
(***************************************************************************)
\* Paginator(object_list, 10)
PER_PAGE == 10

\* Paginator(object_list, 10).get_page(number) for a whole number: a number
\* below 1 or above the number of pages gives the last page; an empty list
\* has one empty page.
get_page(object_list, number) ==
    LET count == Len(object_list)
        num_pages == IF count = 0 THEN 1 ELSE (count + PER_PAGE - 1) \div PER_PAGE
        n == IF number < 1 \/ number > num_pages THEN num_pages ELSE number
        top == IF n * PER_PAGE < count THEN n * PER_PAGE ELSE count
    IN  [number |-> n, object_list |-> SubSeq(object_list, (n - 1) * PER_PAGE + 1, top)]

\* One entry of paginated_sections: page_number = request.GET.get(page_key, 1),
\* params is the query without page_key.
PaginatedSection(GET, label, page_key, object_list) ==
    [label |-> label,
     page_key |-> page_key,
     page_obj |-> get_page(object_list,
                           IF page_key \in DOMAIN GET THEN GET[page_key] ELSE 1),
     params |-> [k \in DOMAIN GET \ {page_key} |-> GET[k]]]

\* The loop of view_all_criminals over categorized: one section per label,
\* page_key = f'page_{label.replace(" ", "_").lower()}'.
paginate_all_criminals(GET, categorized) ==
    [label \in DOMAIN categorized |->
        PaginatedSection(GET, label,
            CASE label = "Federal Felons" -> "page_federal_felons"
              [] label = "Federal Misdemeanors" -> "page_federal_misdemeanors"
              [] label = "Federal Infractions" -> "page_federal_infractions"
              [] label = "Virginia Felons" -> "page_virginia_felons"
              [] label = "Virginia Misdemeanors" -> "page_virginia_misdemeanors"
              [] label = "Virginia Infractions" -> "page_virginia_infractions",
            categorized[label])]

\* paginate_classified_criminals: one section per class that has a criminal,
\* page_key = f"page_{cls.lower() if cls else 'unknown'}", the label is
\* class_labels.get(cls, cls).
paginate_classified_criminals(GET, class_categories, class_labels) ==
    [cls \in {c \in DOMAIN class_categories : class_categories[c] # << >>} |->
        PaginatedSection(GET,
            IF cls \in DOMAIN class_labels THEN class_labels[cls] ELSE cls,
            "page_" \o (IF cls # "" THEN LowerCell(cls) ELSE "unknown"),
            class_categories[cls])]

\* What a view renders: its sections, kept with the query of its request.
PageResp(view, GET, sections) ==
    [view |-> view, status |-> 200, GET |-> GET, sections |-> sections]

\* Lines 159-183 of view_all_criminals on a dictionary categorized.
RenderAll(GET, categorized) ==
    /\ response' = PageResp("all", GET, paginate_all_criminals(GET, categorized))
    /\ UNCHANGED <<criminals, fedOffenses, vaOffenses, links, userVars>>

\* Lines 240-247 of filter_and_render_by_class on a dictionary class_categories.
RenderByClass(GET, offense_cls, class_categories) ==
    /\ response' =
           PageResp("by_class", GET,
               paginate_classified_criminals(GET, class_categories,
                   [c \in CLASS_CHOICES(offense_cls) |->
                       IF c = "NA" THEN "Infraction" ELSE "Class " \o c]))
    /\ UNCHANGED <<criminals, fedOffenses, vaOffenses, links, userVars>>

\* The lists of persons of a section: none, three, eleven.
PersonLists == { [i \in 1..n |-> i] : n \in {0, 3, 11} }

\* The dictionaries categorized: the six labels, two of them with any list.
CategorizedInputs ==
    { [label \in TopLabels |->
          IF label = "Federal Felons" THEN a
          ELSE IF label = "Virginia Felons" THEN b ELSE << >>] :
      a \in PersonLists, b \in PersonLists }

\* The dictionaries class_categories: the keys of CLASS_CHOICES, and the keys
\* setdefault adds for class codes that the CSV import has stored as written
\* ("a", an empty cell), with any list for "A", "B", "a" and "".
ClassCategoriesInputs(offense_cls) ==
    { [cls \in CLASS_CHOICES(offense_cls) \cup {c \in {"a", ""} : extra[c] # << >>} |->
          IF cls \in DOMAIN stored THEN stored[cls]
          ELSE IF cls \in DOMAIN extra THEN extra[cls] ELSE << >>] :
      stored \in [{"A", "B"} \cap CLASS_CHOICES(offense_cls) -> PersonLists],
      extra \in [{"a", ""} -> PersonLists] }

\* The queries of the requests: page numbers under page keys.
Queries ==
    { << >>,
      [k \in {"page_a"} |-> 2],
      [k \in {"page_a", "page_b"} |-> 2],
      [k \in {"page_unknown"} |-> 0],
      [k \in {"page_federal_felons"} |-> 2],
      [k \in {"page_federal_felons", "page_virginia_felons"} |-> 2],
      [k \in {"page_virginia_felons"} |-> 3] }

(***************************************************************************)
(* The session                                                             *)
(***************************************************************************)
SESSION_TTL == 600

EmptySession == [data |-> [k \in {} |-> NoneStr], expire_at |-> 0]

\* request.session.get(key) for recovery_user_id: None is modelled as NullId,
\* both are false in a condition.
SessionUserId(s) ==
    IF "recovery_user_id" \in DOMAIN s.data THEN s.data["recovery_user_id"] ELSE NullId

\* request.session.get("security_question")
SessionQuestion(s) ==
    IF "security_question" \in DOMAIN s.data THEN s.data["security_question"] ELSE NoneStr

\* `not question`: None and the empty string are false.
Falsy(text) == text \in {NoneStr, ""}

\* The session store returns a session only while its expiry date is ahead
\* (expire_date > now); after that the client has an empty session.
Expire(s, t) == IF s.expire_at > t THEN s ELSE EmptySession

(***************************************************************************)
(* user/views.py: the three steps of the account recovery                  *)
(***************************************************************************)
Resp(view, status, to, message) ==
    [view |-> view, status |-> status, to |-> to, message |-> message]

NoUserResponse == Resp("none", 0, "", "")

\* @ratelimit(key="ip", rate="5/m", block=True): a request over the rate is
\* answered 403 before the view body runs. Which requests are over the rate
\* is left open here: any request may be the one that is rejected.
Ratelimited(view) ==
    /\ uresp' = Resp(view, 403, "", "")
    /\ UNCHANGED <<users, session, now, wrong_answers, crimVars, cache>>

UsernameOnly(username, email) ==
    {id \in DOMAIN users : users[id].username = username}

\* User.objects.get(username=username, email=email): the rows that match.
MatchingUsers(username, email) ==
    {id \in DOMAIN users :
        users[id].username = username /\ users[id].email = email}

Step1StoreNoExpiry(id) ==
    [data |-> ("recovery_user_id" :> id)
              @@ ("security_question" :> users[id].security_question)
              @@ session.data,
     expire_at |-> session.expire_at]

Step1StoreKeepsFirst(id) ==
    [data |-> session.data
              @@ ("recovery_user_id" :> id)
              @@ ("security_question" :> users[id].security_question),
     expire_at |-> now + SESSION_TTL]

\* The session after a successful step 1: the two keys are written and
\* set_expiry(600) makes the session end 600 seconds after this write.
Step1Store(id) ==
    [data |-> ("recovery_user_id" :> id)
              @@ ("security_question" :> users[id].security_question)
              @@ session.data,
     expire_at |-> now + SESSION_TTL]

account_recovery_step1_get ==
    /\ uresp' = Resp("step1", 200, "users/account_recovery_step1.html", "")
    /\ UNCHANGED <<users, session, now, wrong_answers, crimVars>>

account_recovery_step1_post(username, email) ==
    LET found == MatchingUsers(username, email) IN
    /\ IF found # {}
       THEN LET id == CHOOSE id \in found : TRUE IN
            /\ session' = Step1Store(id)
            /\ wrong_answers' = 0
            /\ uresp' = Resp("step1", 302, "account_recovery_step2", "")
       ELSE /\ uresp' = Resp("step1", 200, "users/account_recovery_step1.html",
                             "User with that username and email does not exist.")
            /\ UNCHANGED <<session, wrong_answers>>
    /\ UNCHANGED <<users, now, crimVars>>

\* `if not user_id or not question`
Step2NoSessionIdOnly == SessionUserId(session) = NullId

Step2NoSession == SessionUserId(session) = NullId \/ Falsy(SessionQuestion(session))

AnswerMatchesNoStrip(answer, user) ==
    check_password(answer, user.security_answer)

\* check_password(answer.strip(), user.security_answer)
AnswerMatches(answer, user) ==
    check_password(Strip(answer), user.security_answer)

SessionExpiredResponse(view) ==
    Resp(view, 302, "account_recovery_step1",
         "Session expired or invalid. Please start over.")

UserDoesNotExistRenders(view) ==
    Resp(view, 200, "users/account_recovery_step1.html", "User does not exist.")

\* except User.DoesNotExist: messages.error(request, "User does not exist.");
\* return redirect("account_recovery_step1")
UserDoesNotExist(view) ==
    Resp(view, 302, "account_recovery_step1", "User does not exist.")

account_recovery_step2_get ==
    /\ uresp' = IF Step2NoSession
                THEN SessionExpiredResponse("step2")
                ELSE Resp("step2", 200, "users/account_recovery_step2.html", "")
    /\ UNCHANGED <<users, session, now, wrong_answers, crimVars>>

Step2WrongFlushes == EmptySession

\* The session after a wrong answer: it is not touched.
Step2WrongSession == session

account_recovery_step2_post(answer) ==
    LET user_id == SessionUserId(session) IN
    /\ IF Step2NoSession
       THEN /\ uresp' = SessionExpiredResponse("step2")
            /\ UNCHANGED <<session, wrong_answers>>
       ELSE IF user_id \notin DOMAIN users
       THEN /\ uresp' = UserDoesNotExist("step2")
            /\ UNCHANGED <<session, wrong_answers>>
       ELSE IF answer = NoAnswer
       THEN \* None.strip() raises AttributeError, which nothing catches
            /\ uresp' = Resp("step2", 500, "", "AttributeError")
            /\ UNCHANGED <<session, wrong_answers>>
       ELSE IF AnswerMatches(answer, users[user_id])
       THEN /\ uresp' = Resp("step2", 302, "account_recovery_step3", "")
            /\ UNCHANGED <<session, wrong_answers>>
       ELSE /\ wrong_answers < MaxWrong
            /\ uresp' = Resp("step2", 200, "users/account_recovery_step2.html",
                             "Incorrect security answer.")
            /\ session' = Step2WrongSession
            /\ wrong_answers' = wrong_answers + 1
    /\ UNCHANGED <<users, now, crimVars>>

account_recovery_step3_get ==
    /\ uresp' = IF SessionUserId(session) = NullId
                THEN SessionExpiredResponse("step3")
                ELSE Resp("step3", 200, "users/account_recovery_step3.html", "")
    /\ UNCHANGED <<users, session, now, wrong_answers, crimVars>>

NeverDiffer(new_password, new_password_confirm) == FALSE

\* `if new_password != new_password_confirm`
PasswordsDiffer(new_password, new_password_confirm) ==
    new_password # new_password_confirm

SetPasswordDropAnswer(user, raw_password, salt) ==
    [user EXCEPT !.password = Encode(raw_password, salt),
                 !.security_answer = NoHash]

\* user.set_password(raw_password); user.save(): the row with the new hash.
SetPassword(user, raw_password, salt) ==
    [user EXCEPT !.password = Encode(raw_password, salt)]

KeepSession == session

\* request.session.flush() after the password is saved
Step3Flush == EmptySession

account_recovery_step3_post(new_password, new_password_confirm) ==
    LET user_id == SessionUserId(session) IN
    /\ IF user_id = NullId
       THEN /\ uresp' = SessionExpiredResponse("step3")
            /\ UNCHANGED <<users, session, wrong_answers>>
       ELSE IF PasswordsDiffer(new_password, new_password_confirm)
       THEN /\ uresp' = Resp("step3", 200, "users/account_recovery_step3.html",
                             "Passwords do not match.")
            /\ UNCHANGED <<users, session, wrong_answers>>
       ELSE IF user_id \notin DOMAIN users
       THEN /\ uresp' = UserDoesNotExist("step3")
            /\ UNCHANGED <<users, session, wrong_answers>>
       ELSE IF ~validate_password(new_password, users[user_id])
       THEN /\ uresp' = Resp("step3", 200, "users/account_recovery_step3.html",
                             "Password validation error")
            /\ UNCHANGED <<users, session, wrong_answers>>
       ELSE \* user.set_password(new_password); user.save(); session.flush()
            /\ \E salt \in Salts :
                   users' = [users EXCEPT ![user_id] =
                                 SetPassword(users[user_id], new_password, salt)]
            /\ session' = Step3Flush
            /\ wrong_answers' = 0
            /\ uresp' = Resp("step3", 302, "login",
                             "Password reset successful. You can now log in.")
    /\ UNCHANGED <<now, crimVars>>

(***************************************************************************)
(* user/views.py: @ratelimit(key="ip", rate="5/m", block=True)             *)
(***************************************************************************)
\* rate="5/m": five requests in a period of sixty seconds.
RATE_LIMIT == 5
RATE_PERIOD == 60

\* The cache maps a counter's key to its count; it starts empty.
EmptyCache == [key \in {} |-> 0]

\* key="ip": the client addresses of the model.
IPs == {"10.0.0.1", "10.0.0.5"}

\* zlib.crc32 of the address, which shifts its windows.
crc32(value) == IF value = "10.0.0.1" THEN 654229907 ELSE 563283338

\* _get_window: the end of the fixed window of the period that ts lies in.
get_window(value, ts) ==
    LET w == ts - (ts % RATE_PERIOD) + (crc32(value) % RATE_PERIOD)
    IN  IF w < ts THEN w + RATE_PERIOD ELSE w

\* _make_cache_key: one counter per decorated view, window and address.
make_cache_key(group, window, value) == <<group, window, value>>

\* The counters that can still be read at ts: a counter whose window is over
\* is never read again, and its entry times out.
LiveCounters(c, ts) == [k \in {k \in DOMAIN c : k[2] >= ts} |-> c[k]]

ShouldLimitOverSix(count) == count > RATE_LIMIT + 1

\* usage["should_limit"] = count > limit
should_limit(count) == count > RATE_LIMIT

\* get_usage(..., increment=True): cache.add(key, 1) starts the counter of a
\* new window at 1, cache.incr(key) adds one to the counter of a running one.
get_usage(group, value, ts) ==
    LET live == LiveCounters(cache, ts)
        key == make_cache_key(group, get_window(value, ts), value)
        count == IF key \in DOMAIN live THEN live[key] + 1 ELSE 1
    IN  [count |-> count,
         should_limit |-> should_limit(count),
         cache |-> (key :> count) @@ live]

\* The decorated view: the request is counted, and with block=True a request
\* over the limit raises Ratelimited, a PermissionDenied that is answered
\* 403, before the view function is called; else the view function runs.
ratelimit(group, ip, view) ==
    LET usage == get_usage(group, ip, now) IN
    /\ usage.count <= MaxRequests
    /\ cache' = usage.cache
    /\ IF usage.should_limit
       THEN /\ uresp' = Resp(group, 403, "", "")
            /\ UNCHANGED <<users, session, now, wrong_answers, crimVars>>
       ELSE view

(***************************************************************************)
(* The environment of the recovery flow                                    *)
(***************************************************************************)
\* Time passes; a session whose expiry date is reached is gone, and so are
\* the counters of the windows that are over.
Tick ==
    /\ now + TickSeconds <= MaxTicks * TickSeconds
    /\ now' = now + TickSeconds
    /\ session' = Expire(session, now')
    /\ wrong_answers' = IF session' = session THEN wrong_answers ELSE 0
    /\ cache' = LiveCounters(cache, now')
    /\ UNCHANGED <<users, uresp, crimVars>>

\* An account is deleted (the admin site registers CustomUser).
DeleteUser(id) ==
    /\ id \in DOMAIN users
    /\ users' = [u \in DOMAIN users \ {id} |-> users[u]]
    /\ UNCHANGED <<session, now, uresp, wrong_answers, crimVars, cache>>

\* The security answers of the model.
Blue == << "b", "l", "u", "e" >>
BluePadded == << " ", "b", "l", "u", "e", " " >>
BlueCapital == << "B", "l", "u", "e" >>
Red == << "r", "e", "d" >>

Answers == {Blue, BluePadded, BlueCapital, Red, NoAnswer}

Usernames == {"alice", "bob", "mallory"}
Emails == {"alice@example.com", "bob@example.com"}

\* The password pairs a client submits at step 3.
PasswordPairs ==
    { <<"NewPass123!", "NewPass123!">>, <<"alice123", "alice123">>,
      <<"short1!", "short1!">>, <<"password", "password">>,
      <<"12345678", "12345678">>,
      <<"NewPass123!", "NewPass123?">>, <<"short1!", "NewPass123!">> }

\* The accounts on file: alice has set up her security question with the
\* answer "blue"; bob either has not set one up or has one whose stored
\* answer carries surrounding blanks.
SecuritySetups ==
    { [security_question |-> NoneStr, security_answer |-> NoHash],
      [security_question |-> "First pet?",
       security_answer |-> Encode(BluePadded, "s2")] }

InitUsers(bobSetup) ==
    (1 :> [username |-> "alice", email |-> "alice@example.com",
           first_login |-> FALSE, is_superuser |-> FALSE,
           password |-> Encode("defaultpass", "s1"),
           security_question |-> "Favorite color?",
           security_answer |-> Encode(Blue, "s1")])
    @@
    (2 :> [username |-> "bob", email |-> "bob@example.com",
           first_login |-> TRUE, is_superuser |-> FALSE,
           password |-> Encode("defaultpass", "s2"),
           security_question |-> bobSetup.security_question,
           security_answer |-> bobSetup.security_answer])

InitUserApp(bobSetup) ==
    /\ users = InitUsers(bobSetup)
    /\ session = EmptySession
    /\ now = 0
    /\ uresp = NoUserResponse
    /\ wrong_answers = 0
    /\ cache = EmptyCache

(***************************************************************************)
(* user/models.py and user/tasks.py: the expiration of accounts            *)
(***************************************************************************)
\* expiration_date = models.DateField(blank=True, null=True): a date is the
\* number of its day, from 1 on, and NoDate is the null of the column.
NoDate == 0

\* The clock starts at 04:55 UTC of day 11, which is 23:55 of day 10 in
\* TIME_ZONE "America/New_York", five hours behind; `now` is the number of
\* seconds since then.
\* timezone.now().date(): the date of the aware datetime, which is in UTC.
UtcDate(t) == (11 * 86400 + 17700 + t) \div 86400

\* The date a DateField lookup makes of now(): an aware datetime is converted
\* to the default time zone before its date is taken.
LocalDate(t) == (11 * 86400 + 17700 + t - 18000) \div 86400

\* CustomUser.is_expired:
\*     return self.expiration_date and timezone.now().date() > self.expiration_date
\* Python's `and` returns its left operand when that operand is false, so the
\* result is None for an unset date and the comparison's bool otherwise.
is_expired(user) ==
    IF user.expiration_date = NoDate THEN "None"
    ELSE IF UtcDate(now) > user.expiration_date THEN "True"
    ELSE "False"

\* A caller evaluates user.is_expired() on the account of the given id.
is_expired_call(id) ==
    /\ id \in DOMAIN users
    /\ uresp' = [view |-> "is_expired", status |-> 0, to |-> "", message |-> "",
                 user |-> id, result |-> is_expired(users[id])]
    /\ UNCHANGED <<users, session, now, wrong_answers, crimVars, cache>>

ExpiredBeforeToday ==
    {id \in DOMAIN users :
        /\ users[id].expiration_date # NoDate
        /\ users[id].expiration_date < LocalDate(now)}

\* User.objects.filter(expiration_date__lte=now()): a null date matches no
\* comparison.
expired_users ==
    {id \in DOMAIN users :
        /\ users[id].expiration_date # NoDate
        /\ users[id].expiration_date <= LocalDate(now)}

\* The task delete_expired_users: count the matching rows, delete them when
\* there are any, and return "Deleted {count} expired users.".
delete_expired_users ==
    LET count == Cardinality(expired_users) IN
    /\ users' = IF count # 0
                 THEN [id \in DOMAIN users \ expired_users |-> users[id]]
                 ELSE users
    /\ uresp' = [view |-> "delete_expired_users", status |-> 0, to |-> "",
                 message |-> <<"Deleted ", count, " expired users.">>,
                 count |-> count]
    /\ UNCHANGED <<session, now, wrong_answers, crimVars, cache>>

\* The expiration dates of the model: none, and the days 10, 11 and 12.
ExpirationDates == {NoDate} \cup (10 .. 12)

\* The accounts of a table, each with the expiration date given for it.
WithExpiration(table, dates) ==
    [id \in DOMAIN table |-> ("expiration_date" :> dates[id]) @@ table[id]]

(***************************************************************************)
(* Login and the authenticated session (register/views.py, settings)       *)
(***************************************************************************)
\* The session keys of django.contrib.auth.
SESSION_KEY == "_auth_user_id"
HASH_SESSION_KEY == "_auth_user_hash"

\* The lifetime of a session that sets no expiry of its own, in seconds.
SESSION_COOKIE_AGE == 1209600

\* user.get_session_auth_hash(): a keyed digest of the password field.
get_session_auth_hash(user) == << "hmac", user.password >>

\* request.user as AuthenticationMiddleware computes it: the account the
\* session names, if it exists and the session's hash is the one of the
\* account's present password; else the anonymous user (NullId).
RequestUser(s) ==
    IF /\ SESSION_KEY \in DOMAIN s.data
       /\ HASH_SESSION_KEY \in DOMAIN s.data
       /\ s.data[SESSION_KEY] \in DOMAIN users
       /\ s.data[HASH_SESSION_KEY] =
              get_session_auth_hash(users[s.data[SESSION_KEY]])
    THEN s.data[SESSION_KEY]
    ELSE NullId

\* @login_required sends the anonymous user to LOGIN_URL.
LoginRequiredResponse(view) == Resp(view, 302, "/auth/login/", "")

\* django.contrib.auth.login(request, user) for an anonymous session: the
\* session keeps its data and names the account and its hash.
AuthLogin(s, id) ==
    [data |-> (SESSION_KEY :> id)
              @@ (HASH_SESSION_KEY :> get_session_auth_hash(users[id]))
              @@ s.data,
     expire_at |-> now + SESSION_COOKIE_AGE]

\* ModelBackend.authenticate: the account with that username, if the password
\* is its password.
Authenticate(username, password) ==
    {id \in DOMAIN users :
        users[id].username = username /\ check_password(password, users[id].password)}

\* CustomLoginView: an authenticated client is redirected at once
\* (redirect_authenticated_user); valid credentials log the client in and
\* redirect to check_first_login; else the form is shown again.
login_post(username, password) ==
    LET found == Authenticate(username, password) IN
    /\ IF RequestUser(session) # NullId
       THEN /\ uresp' = Resp("login", 302, "check_first_login", "")
            /\ UNCHANGED session
       ELSE IF found # {}
       THEN /\ session' = AuthLogin(session, CHOOSE id \in found : TRUE)
            /\ uresp' = Resp("login", 302, "check_first_login", "")
       ELSE /\ uresp' = Resp("login", 200, "registration/login.html",
                             "Please enter a correct username and password.")
            /\ UNCHANGED session
    /\ UNCHANGED <<users, now, wrong_answers, crimVars, cache>>

\* ProtectedLogoutView: the anonymous user is sent to index; else the session
\* is flushed.
logout_post ==
    /\ IF RequestUser(session) = NullId
       THEN /\ uresp' = Resp("logout", 302, "index", "")
            /\ UNCHANGED session
       ELSE /\ session' = EmptySession
            /\ uresp' = Resp("logout", 302, "/", "")
    /\ UNCHANGED <<users, now, wrong_answers, crimVars, cache>>

(***************************************************************************)
(* user/views.py: first login, forced password reset, security question    *)
(***************************************************************************)
FirstLoginOnly(user) == user.first_login

\* getattr(user, "first_login", False) and not getattr(user, "is_superuser", False)
NeedsForcedReset(user) == user.first_login /\ ~user.is_superuser

check_first_login ==
    /\ uresp' = IF RequestUser(session) = NullId
                THEN LoginRequiredResponse("check_first_login")
                ELSE IF NeedsForcedReset(users[RequestUser(session)])
                THEN Resp("check_first_login", 302, "force_password_reset", "")
                ELSE Resp("check_first_login", 302, "home", "")
    /\ UNCHANGED <<users, session, now, wrong_answers, crimVars, cache>>

\* PasswordResetNoOldForm.is_valid(): both fields are required;
\* clean_new_password2 rejects two different passwords and applies
\* validate_password(password2, instance).
PasswordResetNoOldFormValid(new_password1, new_password2, user) ==
    /\ new_password1 # ""
    /\ new_password2 # ""
    /\ ~(new_password1 # new_password2)
    /\ validate_password(new_password2, user)

KeepAuthHash(s, user) == s

\* update_session_auth_hash(request, user): the session takes the hash of the
\* account's new password.
update_session_auth_hash(s, user) ==
    [s EXCEPT !.data = (HASH_SESSION_KEY :> get_session_auth_hash(user)) @@ @]

force_password_reset_get ==
    /\ uresp' = IF RequestUser(session) = NullId
                THEN LoginRequiredResponse("force_password_reset")
                ELSE Resp("force_password_reset", 200,
                          "user/force_password_reset.html", "")
    /\ UNCHANGED <<users, session, now, wrong_answers, crimVars, cache>>

force_password_reset_post(new_password1, new_password2) ==
    LET id == RequestUser(session) IN
    /\ IF id = NullId
       THEN /\ uresp' = LoginRequiredResponse("force_password_reset")
            /\ UNCHANGED <<users, session>>
       ELSE IF PasswordResetNoOldFormValid(new_password1, new_password2, users[id])
       THEN \* form.save(); update_session_auth_hash; first_login = False; save()
            /\ \E salt \in Salts :
                   users' = [users EXCEPT ![id] =
                       [SetPassword(users[id], new_password1, salt)
                           EXCEPT !.first_login = FALSE]]
            /\ session' = update_session_auth_hash(session, users'[id])
            /\ uresp' = Resp("force_password_reset", 302, "setup_security_question",
                             "Password changed successfully.")
       ELSE /\ uresp' = Resp("force_password_reset", 200,
                             "user/force_password_reset.html", "form errors")
            /\ UNCHANGED <<users, session>>
    /\ UNCHANGED <<now, wrong_answers, crimVars, cache>>

SetupDoneAnswerOnly(user) == user.security_answer # NoHash

\* `if user.security_question and user.security_answer`
SecuritySetupDone(user) ==
    ~Falsy(user.security_question) /\ user.security_answer # NoHash

\* SecurityQuestionForm.is_valid(): security_question may be left empty (the
\* model field is blank=True); security_answer is required, and a CharField
\* strips the submitted text before it checks that something is left.
SecurityQuestionFormValid(question, answer) ==
    answer # NoAnswer /\ Strip(answer) # <<>>

\* The cleaned question: an empty input becomes NULL (the field is null=True).
CleanedQuestion(question) == IF question = "" THEN NoneStr ELSE question

\* CustomUser.set_security_answer(raw_answer)
set_security_answer(user, raw_answer, salt) ==
    [user EXCEPT !.security_answer = Encode(raw_answer, salt)]

\* CustomUser.check_security_answer(raw_answer)
check_security_answer(user, raw_answer) ==
    check_password(raw_answer, user.security_answer)

\* SecurityQuestionForm.save(): the cleaned question and the hash of the
\* cleaned (stripped) answer are written to the account.
SecurityQuestionFormSave(user, question, answer, salt) ==
    set_security_answer([user EXCEPT !.security_question = CleanedQuestion(question)],
                        Strip(answer), salt)

setup_security_question_get ==
    /\ uresp' = IF RequestUser(session) = NullId
                THEN LoginRequiredResponse("setup_security_question")
                ELSE IF SecuritySetupDone(users[RequestUser(session)])
                THEN Resp("setup_security_question", 302, "home", "")
                ELSE Resp("setup_security_question", 200,
                          "user/setup_security_question.html", "")
    /\ UNCHANGED <<users, session, now, wrong_answers, crimVars, cache>>

setup_security_question_post(question, answer) ==
    LET id == RequestUser(session) IN
    /\ IF id = NullId
       THEN /\ uresp' = LoginRequiredResponse("setup_security_question")
            /\ UNCHANGED users
       ELSE IF SecuritySetupDone(users[id])
       THEN /\ uresp' = Resp("setup_security_question", 302, "home", "")
            /\ UNCHANGED users
       ELSE IF SecurityQuestionFormValid(question, answer)
       THEN /\ \E salt \in Salts :
                   users' = [users EXCEPT ![id] =
                       SecurityQuestionFormSave(users[id], question, answer, salt)]
            /\ uresp' = Resp("setup_security_question", 302, "home",
                             "Security question set successfully.")
       ELSE /\ uresp' = Resp("setup_security_question", 200,
                             "user/setup_security_question.html", "form errors")
            /\ UNCHANGED users
    /\ UNCHANGED <<session, now, wrong_answers, crimVars, cache>>

\* The credentials, questions and answers a client submits.
LoginPasswords == {"defaultpass", "NewPass123!", "wrong"}
Questions == {"Your favorite food?", ""}
Blank == << " " >>
SetupAnswers == {Blue, BluePadded, Red, Blank, NoAnswer}

(***************************************************************************)
(* user/views.py: the CSV import mass_add_users                            *)
(***************************************************************************)
\* An accounts limit of the model: an import starts while fewer accounts
\* are on file.
MaxAccounts == 4

\* ''.join(chars): the string a sequence of characters spells.
RECURSIVE Join(_)
Join(chars) == IF chars = << >> THEN "" ELSE Head(chars) \o Join(Tail(chars))

\* email.split("@")[0]: the characters before the first "@", every character
\* where the address has none.
RECURSIVE SplitFirst(_)
SplitFirst(email) ==
    IF email = << >> \/ Head(email) = "@"
    THEN << >>
    ELSE << Head(email) >> \o SplitFirst(Tail(email))

\* BaseUserManager.normalize_email: the domain part, after the last "@", is
\* lowercased (str.lower() on the characters of the model); an address
\* without "@" is kept.
normalize_email(email) ==
    LET lower(c) == CASE c = "E" -> "e"
                      [] c = "D" -> "d"
                      [] OTHER -> c
        at == IF \E i \in 1..Len(email) : email[i] = "@"
              THEN CHOOSE i \in 1..Len(email) :
                       email[i] = "@" /\ \A j \in (i + 1)..Len(email) : email[j] # "@"
              ELSE 0
    IN  [i \in 1..Len(email) |-> IF at > 0 /\ i > at THEN lower(email[i]) ELSE email[i]]

\* generate_temp_password(): six characters drawn from letters and digits;
\* the draws of the model.
generate_temp_password == {"aB3dE9", "Zx81Qp"}

\* DateField.to_python on the expiration_date cells of the model: a cell that
\* is no ISO date raises ValidationError when the row is saved.
IsoDate(cell) ==
    CASE cell = "2027-01-31" -> TRUE
      [] cell = "2027-06-30" -> TRUE
      [] cell = "01/31/2027" -> FALSE

\* The primary key the database gives the next row.
NextUserId(table) ==
    IF DOMAIN table = {}
    THEN 1
    ELSE 1 + CHOOSE m \in DOMAIN table : \A id \in DOMAIN table : id <= m

UsernameNeverTaken(table, username) == FALSE

\* The unique constraint of AbstractUser.username.
UsernameTaken(table, username) ==
    \E id \in DOMAIN table : table[id].username = username

\* User.objects.create_user(username, email, password, **extra_fields): an
\* empty username raises ValueError; saving raises ValidationError for a bad
\* date and IntegrityError for a username that is on file; else the account
\* is on file with the hash of the password.
create_user(table, username, email, password, salt, extra_fields) ==
    IF username = ""
    THEN [error |-> "ValueError", users |-> table]
    ELSE IF ~IsoDate(extra_fields.expiration_date)
    THEN [error |-> "ValidationError", users |-> table]
    ELSE IF UsernameTaken(table, username)
    THEN [error |-> "IntegrityError", users |-> table]
    ELSE [error |-> "None",
          users |-> table @@
              (NextUserId(table) :>
                  [username |-> username,
                   email |-> Join(normalize_email(email)),
                   first_name |-> extra_fields.first_name,
                   last_name |-> extra_fields.last_name,
                   expiration_date |-> extra_fields.expiration_date,
                   first_login |-> extra_fields.first_login,
                   is_superuser |-> FALSE,
                   password |-> Encode(password, salt),
                   security_question |-> NoneStr,
                   security_answer |-> NoHash])]

expected_header_users == << "first_name", "last_name", "email", "expiration_date" >>

\* `not header or [h.strip().lower() for h in header] != expected_header`
UserHeaderRejected(header) ==
    \/ header = NoHeader
    \/ [i \in 1..Len(header) |-> LowerCell(StripCell(header[i]))] # expected_header_users

\* The first row the writer emits.
ManifestHeader ==
    << "first_name", "last_name", "email", "username", "temporary_password" >>

\* No CSV attachment in the answer.
NoManifest == << >>

\* Before the first row: the accounts on file, the manifest with its header.
UserImportStart ==
    [users |-> users, manifest |-> << ManifestHeader >>, warnings |-> 0,
     error |-> "None"]

\* One pass of the loop body: a row of another length than 4 is skipped with
\* a warning; else the account is created from the row with the password
\* drawn for it and the manifest gets its row.
ImportUserRow(st, row, draw) ==
    IF Len(row) # 4
    THEN [st EXCEPT !.warnings = @ + 1]
    ELSE LET first_name == row[1]
             last_name == row[2]
             email == row[3]
             expiration_date == row[4]
             username == Join(SplitFirst(email))
             temp_password == draw[1]
             made == create_user(st.users, username, email, temp_password, draw[2],
                                 [first_name |-> first_name, last_name |-> last_name,
                                  expiration_date |-> expiration_date,
                                  first_login |-> TRUE])
         IN  IF made.error # "None"
             THEN [st EXCEPT !.error = made.error]
             ELSE [st EXCEPT !.users = made.users,
                             !.manifest = Append(@, << first_name, last_name, Join(email),
                                                       username, temp_password >>)]

\* The loop over the rows; an exception ends it.
RECURSIVE ImportUserRows(_, _, _, _)
ImportUserRows(rows, draws, i, st) ==
    IF i > Len(rows) \/ st.error # "None"
    THEN st
    ELSE ImportUserRows(rows, draws, i + 1, ImportUserRow(st, rows[i], draws[i]))

\* request.FILES.get("csv_file") of a request without an upload.
NoFile == [name |-> NoneStr, header |-> NoHeader, rows |-> << >>]

\* What the import answers: the status, the redirect target or the template,
\* the message, the rows of the CSV attachment, the number of warnings; the
\* answer is kept with the upload of its request, as the test client keeps it.
UserImportResp(status, to, message, manifest, warnings, csv_file) ==
    [view |-> "mass_add_users", status |-> status, to |-> to, message |-> message,
     manifest |-> manifest, warnings |-> warnings, csv_file |-> csv_file]

\* redirect("mass_add_users") names a URL that user/urls.py does not define:
\* `resolves` says whether the project's URL configuration defines it. Where
\* it does not, NoReverseMatch is raised; raised in the try block it is caught
\* by the handler, whose own redirect raises it again.
RedirectBack(resolves, message, warnings, csv_file) ==
    IF resolves
    THEN UserImportResp(302, "mass_add_users", message, NoManifest, warnings, csv_file)
    ELSE UserImportResp(500, "", "NoReverseMatch", NoManifest, warnings, csv_file)

mass_add_users_get ==
    /\ uresp' = UserImportResp(200, "user/create_new_users.html", "", NoManifest, 0, NoFile)
    /\ UNCHANGED <<users, session, now, wrong_answers, crimVars, cache>>

\* mass_add_users for a POST with a file, by a logged-in staff account; draws
\* gives, per row, the password and the salt drawn for it.
mass_add_users_post(file, draws, resolves) ==
    /\ Cardinality(DOMAIN users) < MaxAccounts
    /\ IF ~EndsWithCsv(file.name)
       THEN /\ uresp' = RedirectBack(resolves, "Please upload a valid .csv file.", 0, file)
            /\ UNCHANGED users
       ELSE IF UserHeaderRejected(file.header)
       THEN /\ uresp' = RedirectBack(resolves, "Invalid CSV header.", 0, file)
            /\ UNCHANGED users
       ELSE LET out == Atomic(UserImportStart,
                              ImportUserRows(file.rows, draws, 1, UserImportStart)) IN
            /\ users' = out.users
            /\ uresp' = IF out.error = "None"
                        THEN UserImportResp(200, "new_user_credentials.csv", "",
                                            out.manifest, out.warnings, file)
                        ELSE RedirectBack(resolves,
                                          "Error processing file: " \o out.error,
                                          out.warnings, file)
    /\ UNCHANGED <<session, now, wrong_answers, crimVars, cache>>

\* The rows of the files, the address character by character: two new
\* accounts; a row whose address gives the username of an account on file; a
\* row with a date in another format; a row whose address starts with "@"; a
\* row of three fields.
UserRows ==
    [carol |-> << "Carol", "Cole",
                  << "c", "a", "r", "o", "l", "@", "x", ".", "o", "r", "g" >>,
                  "2027-01-31" >>,
     dave |-> << "Dave", "Dunn",
                 << "D", "a", "v", "e", "@", "E", "x", ".", "o", "r", "g" >>,
                 "2027-06-30" >>,
     alice |-> << "Alice", "Adams",
                  << "a", "l", "i", "c", "e", "@", "y", ".", "o", "r", "g" >>,
                  "2027-01-31" >>,
     erin |-> << "Erin", "Eck",
                 << "e", "r", "i", "n", "@", "x", ".", "o", "r", "g" >>,
                 "01/31/2027" >>,
     nolocal |-> << "Nora", "Noll", << "@", "x", ".", "o", "r", "g" >>, "2027-01-31" >>,
     three |-> << "Carol", "Cole",
                  << "c", "a", "r", "o", "l", "@", "x", ".", "o", "r", "g" >> >>]

\* The data rows of a file: no row, one row, any row after that of Carol,
\* the two new accounts in the other order and around a row of three fields.
UserRowSeqs ==
    {<< >>} \cup {<< UserRows[a] >> : a \in DOMAIN UserRows}
            \cup {<< UserRows.carol, UserRows[b] >> : b \in DOMAIN UserRows}
            \cup {<< UserRows.dave, UserRows.carol >>,
                  << UserRows.carol, UserRows.three, UserRows.dave >>}

\* The uploads: every sequence of rows under the expected header, and two rows
\* under a header in another spelling, a header of three cells, no header
\* and a file name without .csv.
UserCsvFiles ==
    {[name |-> "users.csv", header |-> expected_header_users, rows |-> rows] :
        rows \in UserRowSeqs}
    \cup {[name |-> "users.csv", header |-> header,
           rows |-> << UserRows.carol, UserRows.dave >>] :
        header \in {<< "first_name", "last_name", "Email ", "expiration_date" >>,
                    << "first_name", "last_name", "email" >>,
                    NoHeader}}
    \cup {[name |-> "users.txt", header |-> expected_header_users,
           rows |-> << UserRows.carol, UserRows.dave >>]}

\* What is drawn for the rows of a file: per row, the password with the salt
\* of its hash.
Draws(file) ==
    [1..Len(file.rows) ->
        { d \in generate_temp_password \X Salts : (d[1] = "aB3dE9") <=> (d[2] = "s1") }]

\* The persons on file.
(***************************************************************************)
(* user/forms.py: CustomUserCreationForm, and user/views.py: create_user   *)
(***************************************************************************)
\* EmailField: an address has one "@", with characters on both sides of it.
EmailValid(email) ==
    /\ Cardinality({i \in 1..Len(email) : email[i] = "@"}) = 1
    /\ email[1] # "@"
    /\ email[Len(email)] # "@"

\* form.is_valid(): the fields of the form are email, first_name, last_name,
\* expiration_date, password1 and password2 (Meta.fields names no username,
\* so a submitted username is no field and is not read). The two passwords
\* must be equal and pass the validators, for an instance whose username is
\* not set yet.
CustomUserCreationForm_is_valid(data) ==
    /\ EmailValid(data.email)
    /\ data.expiration_date = "" \/ IsoDate(data.expiration_date)
    /\ data.password1 = data.password2
    /\ validate_password(data.password2, [username |-> ""])

\* user.username = user.email.split("@")[0]
FormUsername(data) == Join(SplitFirst(data.email))

\* CustomUserCreationForm.save(): the instance of UserCreationForm.save, with
\* the password hashed, gets the cleaned e-mail address, the part of it before
\* the "@" as username, the names and the date, and is saved; the unique
\* username raises IntegrityError for a username that is on file.
CustomUserCreationForm_save(table, data, salt) ==
    IF UsernameTaken(table, FormUsername(data))
    THEN [error |-> "IntegrityError", users |-> table]
    ELSE [error |-> "None",
          users |-> table @@
              (NextUserId(table) :>
                  [username |-> FormUsername(data),
                   email |-> Join(data.email),
                   first_name |-> data.first_name,
                   last_name |-> data.last_name,
                   expiration_date |-> IF data.expiration_date = ""
                                       THEN NoneStr ELSE data.expiration_date,
                   first_login |-> TRUE,
                   is_superuser |-> FALSE,
                   is_staff |-> FALSE,
                   password |-> Encode(data.password1, salt),
                   security_question |-> NoneStr,
                   security_answer |-> NoHash])]

\* is_admin = lambda u: u.is_staff, for request.user.
is_admin(s) == RequestUser(s) # NullId /\ users[RequestUser(s)].is_staff

\* create_user, POST: @login_required and @user_passes_test(is_admin) send
\* anyone but a logged-in staff account to the login page; a valid form is
\* saved and the client is redirected to home; an invalid one is rendered
\* again with an error. An IntegrityError of the save is not caught.
create_user_post(data) ==
    /\ IF ~is_admin(session)
       THEN /\ uresp' = LoginRequiredResponse("create_user")
            /\ UNCHANGED users
       ELSE IF ~CustomUserCreationForm_is_valid(data)
       THEN /\ uresp' = Resp("create_user", 200, "user/create_new_user.html",
                             "There was an error in creating the user.")
            /\ UNCHANGED users
       ELSE /\ Cardinality(DOMAIN users) < MaxAccounts
            /\ \E salt \in Salts :
                   LET saved == CustomUserCreationForm_save(users, data, salt) IN
                   /\ users' = saved.users
                   /\ uresp' = IF saved.error = "None"
                                THEN Resp("create_user", 302, "home",
                                          "User created successfully!")
                                ELSE Resp("create_user", 500, "", saved.error)
    /\ UNCHANGED <<session, now, wrong_answers, crimVars, cache>>

\* create_user, GET: the empty form, for a logged-in staff account.
create_user_get ==
    /\ uresp' = IF ~is_admin(session)
                THEN LoginRequiredResponse("create_user")
                ELSE Resp("create_user", 200, "user/create_new_user.html", "")
    /\ UNCHANGED <<users, session, now, wrong_answers, crimVars, cache>>

\* The forms a client posts: the two of the tests, one whose address shares
\* its first part with alice's, one without a date, and invalid ones.
CreateUserPosts ==
    LET form(username, email, first, last, p1, p2, date) ==
            [username |-> username, email |-> email, first_name |-> first,
             last_name |-> last, password1 |-> p1, password2 |-> p2,
             expiration_date |-> date]
    IN  { form("testuser", << "t", "e", "s", "t", "@", "e", "x", "a", "m", "p", "l", "e", ".", "c", "o", "m" >>,
               "Test", "User", "StrongPass123!", "StrongPass123!", "2027-01-31"),
          form("newuser", << "n", "e", "w", "u", "s", "e", "r", "@", "e", "x", "a", "m", "p", "l", "e", ".", "c", "o", "m" >>,
               "", "", "SafePassword1!", "SafePassword1!", ""),
          form("alice2", << "a", "l", "i", "c", "e", "@", "o", "t", "h", "e", "r", ".", "o", "r", "g" >>,
               "Alice", "Two", "SafePassword1!", "SafePassword1!", "2027-06-30"),
          form("mismatch", << "m", "@", "e", "x", "a", "m", "p", "l", "e", ".", "c", "o", "m" >>,
               "Test", "User", "StrongPass123!", "SafePassword1!", ""),
          form("baddate", << "b", "@", "e", "x", "a", "m", "p", "l", "e", ".", "c", "o", "m" >>,
               "Test", "User", "StrongPass123!", "StrongPass123!", "01/31/2027"),
          form("noat", << "n", "o", "a", "t" >>,
               "Test", "User", "StrongPass123!", "StrongPass123!", ""),
          form("weak", << "w", "@", "e", "x", "a", "m", "p", "l", "e", ".", "c", "o", "m" >>,
               "Test", "User", "password", "password", "") }

People == << [first_name |-> "Jane", last_name |-> "Smith"],
            [first_name |-> "John", last_name |-> "Doe"] >>

\* The offense tables hold one row per offense type of either jurisdiction and
\* one row whose type is no key of OFFENSE_PRIORITY; the table of persons is
\* empty or holds two persons.
InitCriminals ==
    /\ criminals \in {<<>>, People}
    /\ fedOffenses =
        << [offense_type |-> FELONY, offense_class |-> "A", description |-> "Fraud"],
           [offense_type |-> MISDEMEANOR, offense_class |-> "B", description |-> "Trespass"],
           [offense_type |-> INFRACTION, offense_class |-> "NA", description |-> "Littering"],
           [offense_type |-> UnmappedType, offense_class |-> "C", description |-> "Fraud"] >>
    /\ vaOffenses =
        << [offense_type |-> FELONY, offense_class |-> "1", description |-> "Robbery"],
           [offense_type |-> MISDEMEANOR, offense_class |-> "2", description |-> "Petty theft"],
           [offense_type |-> INFRACTION, offense_class |-> "NA", description |-> "Littering"],
           [offense_type |-> UnmappedType, offense_class |-> "3", description |-> "Robbery"] >>
    /\ links = <<>>
    /\ response = NoResponse
    /\ InitUserApp(CHOOSE b \in SecuritySetups : b.security_question = NoneStr)

NextCriminals ==
    \/ CreateOffenseLink
    \/ view_all_criminals
    \/ view_federal_felons
    \/ view_federal_misdemeanors
    \/ view_federal_infractions
    \/ view_state_felons
    \/ view_state_misdemeanors
    \/ view_state_infractions

SpecCriminals == InitCriminals /\ [][NextCriminals]_vars

\* The pagination is applied to dictionaries of persons, on empty tables.
InitPagination ==
    /\ criminals = <<>>
    /\ fedOffenses = <<>>
    /\ vaOffenses = <<>>
    /\ links = <<>>
    /\ response = NoResponse
    /\ InitUserApp(CHOOSE b \in SecuritySetups : b.security_question = NoneStr)

NextPagination ==
    \/ \E GET \in Queries, categorized \in CategorizedInputs :
           RenderAll(GET, categorized)
    \/ \E GET \in Queries, offense_cls \in {"FederalOffense", "VACodeOffense"} :
           \E class_categories \in ClassCategoriesInputs(offense_cls) :
               RenderByClass(GET, offense_cls, class_categories)

SpecPagination == InitPagination /\ [][NextPagination]_vars

InitRecovery ==
    /\ criminals = <<>>
    /\ fedOffenses = <<>>
    /\ vaOffenses = <<>>
    /\ links = <<>>
    /\ response = NoResponse
    /\ \E bobSetup \in SecuritySetups : InitUserApp(bobSetup)

NextRecovery ==
    \/ account_recovery_step1_get /\ UNCHANGED cache
    \/ \E username \in Usernames, email \in Emails :
           account_recovery_step1_post(username, email) /\ UNCHANGED cache
    \/ account_recovery_step2_get /\ UNCHANGED cache
    \/ \E answer \in Answers :
           account_recovery_step2_post(answer) /\ UNCHANGED cache
    \/ account_recovery_step3_get /\ UNCHANGED cache
    \/ \E pair \in PasswordPairs :
           account_recovery_step3_post(pair[1], pair[2]) /\ UNCHANGED cache
    \/ \E view \in {"step1", "step2", "step3"} : Ratelimited(view)
    \/ Tick
    \/ \E id \in DOMAIN users : DeleteUser(id)

SpecRecovery == InitRecovery /\ [][NextRecovery]_vars

\* The recovery endpoints behind their rate limiter: one address asks all
\* three, a second one posts to step 3.
InitRatelimit ==
    /\ criminals = <<>>
    /\ fedOffenses = <<>>
    /\ vaOffenses = <<>>
    /\ links = <<>>
    /\ response = NoResponse
    /\ InitUserApp(CHOOSE b \in SecuritySetups : b.security_question = NoneStr)

NextRatelimit ==
    \/ ratelimit("step1", "10.0.0.1", account_recovery_step1_get)
    \/ ratelimit("step1", "10.0.0.1",
                 account_recovery_step1_post("alice", "alice@example.com"))
    \/ ratelimit("step2", "10.0.0.1", account_recovery_step2_post(Blue))
    \/ \E ip \in IPs :
           ratelimit("step3", ip,
                     account_recovery_step3_post("NewPass123!", "NewPass123!"))
    \/ Tick

SpecRatelimit == InitRatelimit /\ [][NextRatelimit]_vars

\* The sweep runs beside the recovery flow: alice and bob both have their
\* security question, and each has any of the expiration dates.
InitSweep ==
    /\ criminals = <<>>
    /\ fedOffenses = <<>>
    /\ vaOffenses = <<>>
    /\ links = <<>>
    /\ response = NoResponse
    /\ \E dates \in [{1, 2} -> ExpirationDates] :
           users = WithExpiration(
                       InitUsers(CHOOSE b \in SecuritySetups :
                                     b.security_question # NoneStr), dates)
    /\ session = EmptySession
    /\ now = 0
    /\ uresp = NoUserResponse
    /\ wrong_answers = 0
    /\ cache = EmptyCache

NextSweep ==
    \/ \E username \in {"alice", "bob"}, email \in Emails :
           account_recovery_step1_post(username, email) /\ UNCHANGED cache
    \/ \E answer \in Answers :
           account_recovery_step2_post(answer) /\ UNCHANGED cache
    \/ \E pair \in PasswordPairs :
           account_recovery_step3_post(pair[1], pair[2]) /\ UNCHANGED cache
    \/ Tick
    \/ delete_expired_users
    \/ \E id \in DOMAIN users : is_expired_call(id)

SpecSweep == InitSweep /\ [][NextSweep]_vars

\* The import starts on empty tables, or on tables where one Virginia offense
\* is on file twice.
InitImport ==
    /\ criminals = <<>>
    /\ fedOffenses = <<>>
    /\ vaOffenses \in {<<>>, << PettyTheft, PettyTheft >>}
    /\ links = <<>>
    /\ response = NoResponse
    /\ InitUserApp(CHOOSE b \in SecuritySetups : b.security_question = NoneStr)

NextImport ==
    \/ mass_add_criminals_get
    \/ \E file \in CsvFiles, resolves \in BOOLEAN :
           mass_add_criminals_post(file, resolves)
    \/ add_criminal_get
    \/ \E data \in AddCriminalPosts : add_criminal_post(data)

SpecImport == InitImport /\ [][NextImport]_vars

\* The accounts of the onboarding: alice has logged in before and has her
\* security question; bob is any mix of first login and superuser, with or
\* without a security question.
InitOnboarding ==
    /\ criminals = <<>>
    /\ fedOffenses = <<>>
    /\ vaOffenses = <<>>
    /\ links = <<>>
    /\ response = NoResponse
    /\ \E bobSetup \in SecuritySetups, first_login \in BOOLEAN, is_superuser \in BOOLEAN :
           users = [InitUsers(bobSetup) EXCEPT ![2].first_login = first_login,
                                               ![2].is_superuser = is_superuser]
    /\ session = EmptySession
    /\ now = 0
    /\ uresp = NoUserResponse
    /\ wrong_answers = 0
    /\ cache = EmptyCache

NextOnboarding ==
    \/ \E username \in {"alice", "bob"}, password \in LoginPasswords :
           login_post(username, password)
    \/ logout_post
    \/ check_first_login
    \/ force_password_reset_get
    \/ \E pair \in PasswordPairs : force_password_reset_post(pair[1], pair[2])
    \/ setup_security_question_get
    \/ \E question \in Questions, answer \in SetupAnswers :
           setup_security_question_post(question, answer)

SpecOnboarding == InitOnboarding /\ [][NextOnboarding]_vars

\* The creation of accounts: alice is a staff account, bob is not, and
\* either may log in.
InitCreateUser ==
    /\ criminals = <<>>
    /\ fedOffenses = <<>>
    /\ vaOffenses = <<>>
    /\ links = <<>>
    /\ response = NoResponse
    /\ \E bobSetup \in SecuritySetups :
           users = [id \in {1, 2} |->
                       ("is_staff" :> (id = 1)) @@ InitUsers(bobSetup)[id]]
    /\ session = EmptySession
    /\ now = 0
    /\ uresp = NoUserResponse
    /\ wrong_answers = 0
    /\ cache = EmptyCache

NextCreateUser ==
    \/ \E username \in {"alice", "bob"} : login_post(username, "defaultpass")
    \/ logout_post
    \/ create_user_get
    \/ \E data \in CreateUserPosts : create_user_post(data)

SpecCreateUser == InitCreateUser /\ [][NextCreateUser]_vars

\* The user import starts on the two accounts alice and bob.
InitUserImport ==
    /\ criminals = <<>>
    /\ fedOffenses = <<>>
    /\ vaOffenses = <<>>
    /\ links = <<>>
    /\ response = NoResponse
    /\ \E bobSetup \in SecuritySetups : InitUserApp(bobSetup)

NextUserImport ==
    \/ mass_add_users_get
    \/ \E file \in UserCsvFiles, resolves \in BOOLEAN :
           \E draws \in Draws(file) : mass_add_users_post(file, draws, resolves)

SpecUserImport == InitUserImport /\ [][NextUserImport]_vars

(***************************************************************************)
(* Properties of the classification                                        *)
(***************************************************************************)
\* What a link says, read off the tables without the view code: the type and
\* the jurisdiction of the offense the link references ("none" without one).
LinkType(l) ==
    IF l.federal_offense # NullId THEN fedOffenses[l.federal_offense].offense_type
    ELSE IF l.vacode_offense # NullId THEN vaOffenses[l.vacode_offense].offense_type
    ELSE "none"

LinkJurisdiction(l) ==
    IF l.federal_offense # NullId THEN "federal"
    ELSE IF l.vacode_offense # NullId THEN "virginia"
    ELSE "none"

LinkOffenseId(l) ==
    IF l.federal_offense # NullId THEN l.federal_offense ELSE l.vacode_offense

\* Felony > Misdemeanor > Infraction; any other type ranks 0.
Rank(t) ==
    CASE t = "Felony" -> 3
      [] t = "Misdemeanor" -> 2
      [] t = "Infraction" -> 1
      [] OTHER -> 0

\* The positions in `links` of the links of criminal c.
LinkIdx(c) == {i \in 1..Len(links) : links[i].criminal = c}

HasMappedOffense(c) == \E i \in LinkIdx(c) : Rank(LinkType(links[i])) > 0

\* The first link of c, in iteration order, among those of greatest rank.
BestLink(c) ==
    CHOOSE i \in LinkIdx(c) :
        /\ \A j \in LinkIdx(c) : Rank(LinkType(links[j])) <= Rank(LinkType(links[i]))
        /\ \A j \in LinkIdx(c) :
               Rank(LinkType(links[j])) = Rank(LinkType(links[i])) => i <= j

\* The number of times criminal c is listed in the sections of a response.
Listed(sections, c) ==
    Cardinality({<<k, j>> \in
        UNION {{<<k2, j2>> : j2 \in 1..Len(sections[k2])} : k2 \in DOMAIN sections} :
        sections[k][j] = c})

\* The top-level bucket of a jurisdiction and an offense type.
TopBucket(jurisdiction, t) ==
    CASE jurisdiction = "federal" /\ t = "Felony" -> "Federal Felons"
      [] jurisdiction = "federal" /\ t = "Misdemeanor" -> "Federal Misdemeanors"
      [] jurisdiction = "federal" /\ t = "Infraction" -> "Federal Infractions"
      [] jurisdiction = "virginia" /\ t = "Felony" -> "Virginia Felons"
      [] jurisdiction = "virginia" /\ t = "Misdemeanor" -> "Virginia Misdemeanors"
      [] jurisdiction = "virginia" /\ t = "Infraction" -> "Virginia Infractions"

\* The six jurisdiction x type views with the (score, source_key) they filter on.
SixViews ==
    { [label |-> "federal_felons", score |-> 3, source_key |-> "federal"],
      [label |-> "federal_misdemeanors", score |-> 2, source_key |-> "federal"],
      [label |-> "federal_infractions", score |-> 1, source_key |-> "federal"],
      [label |-> "state_felons", score |-> 3, source_key |-> "virginia"],
      [label |-> "state_misdemeanors", score |-> 2, source_key |-> "virginia"],
      [label |-> "state_infractions", score |-> 1, source_key |-> "virginia"] }

\* C1: whenever view_all_criminals has answered, it has rendered (status 200)
\* and every person with an offense of type Felony, Misdemeanor or Infraction
\* is listed exactly once, in the bucket of the jurisdiction and type of the
\* person's highest-priority offense.
C1_AllViewOneBucket ==
    response.view = "all" =>
        /\ response.status = 200
        /\ \A c \in 1..Len(criminals) :
               HasMappedOffense(c) =>
                   LET l == links[BestLink(c)]
                       b == TopBucket(LinkJurisdiction(l), LinkType(l))
                   IN  /\ Listed(response.sections, c) = 1
                       /\ \E j \in 1..Len(response.sections[b]) :
                              response.sections[b][j] = c

\* C2: get_highest_offense returns, for a person with an offense of a mapped
\* type, the score, the jurisdiction and the offense of the first link, in
\* iteration order, among the links of greatest priority (Felony 3 >
\* Misdemeanor 2 > Infraction 1), and the score and the source it returns are
\* those of the offense it returns.
C2_HighestIsFirstOfGreatest ==
    \A c \in 1..Len(criminals) :
        HasMappedOffense(c) =>
            LET l == links[BestLink(c)]
                h == get_highest_offense(c)
            IN  /\ h.error = "None"
                /\ h.score = Rank(LinkType(l))
                /\ h.source = LinkJurisdiction(l)
                /\ h.offense.id = LinkOffenseId(l)
                /\ h.offense.table =
                       (IF LinkJurisdiction(l) = "federal"
                        THEN "FederalOffense" ELSE "VACodeOffense")
                /\ h.source = source(h.offense)
                /\ h.score = Rank(OffenseRow(h.offense).offense_type)

\* C3: a person without links, or whose links reference no offense or only
\* offenses of a type outside the priority mapping, is classified
\* (0, None, None) by get_highest_offense and is listed in no section of any
\* response.
C3_UnclassifiedExcluded ==
    \A c \in 1..Len(criminals) :
        ~HasMappedOffense(c) =>
            /\ get_highest_offense(c) = [error |-> "None"] @@ NoHighest
            /\ Listed(response.sections, c) = 0

\* C4: a response of one of the six jurisdiction x type views lists a person
\* with a mapped offense exactly when the view's (score, source_key) is the
\* score and jurisdiction of the person's highest-priority offense, and then
\* once; so the person is in exactly one of the six views.
C4_ExactlyOneView ==
    \A v \in SixViews :
        response.view = v.label =>
            \A c \in 1..Len(criminals) :
                HasMappedOffense(c) =>
                    LET l == links[BestLink(c)]
                        mine == /\ v.score = Rank(LinkType(l))
                                /\ v.source_key = LinkJurisdiction(l)
                    IN  Listed(response.sections, c) = (IF mine THEN 1 ELSE 0)

\* The class code of the offense a link references, read off the tables.
LinkClass(l) ==
    IF l.federal_offense # NullId
    THEN fedOffenses[l.federal_offense].offense_class
    ELSE vaOffenses[l.vacode_offense].offense_class

\* C21: a response of one of the six jurisdiction x type views lists every
\* person whose highest-priority offense has the view's score and
\* jurisdiction once, in the section keyed by the class code of that offense,
\* and has no section without a person.
C21_OneClassSection ==
    \A v \in SixViews :
        response.view = v.label =>
            /\ \A cls \in DOMAIN response.sections : response.sections[cls] # << >>
            /\ \A c \in 1..Len(criminals) :
                   LET l == links[BestLink(c)] IN
                   ( /\ HasMappedOffense(c)
                     /\ v.score = Rank(LinkType(l))
                     /\ v.source_key = LinkJurisdiction(l) )
                   => /\ Listed(response.sections, c) = 1
                      /\ LinkClass(l) \in DOMAIN response.sections
                      /\ \E j \in 1..Len(response.sections[LinkClass(l)]) :
                             response.sections[LinkClass(l)][j] = c

\* C22: the sections of one rendered view have pairwise different page keys,
\* each shows the page its own key names in the query (the first page without
\* it), and the link parameters of each are the query without its own key, so
\* they keep the page parameter of every other section.
C22_DistinctPageKeys ==
    response.view \in {"all", "by_class"} =>
        LET sections == response.sections
            GET == response.GET
        IN  /\ \A a \in DOMAIN sections, b \in DOMAIN sections :
                   a # b => sections[a].page_key # sections[b].page_key
            /\ \A a \in DOMAIN sections :
                   /\ sections[a].page_key \notin DOMAIN sections[a].params
                   /\ \A k \in DOMAIN GET \ {sections[a].page_key} :
                          k \in DOMAIN sections[a].params
                              /\ sections[a].params[k] = GET[k]

(***************************************************************************)
(* Properties of the account recovery                                      *)
(***************************************************************************)
\* The strength policy on the passwords of the model: too short, commonly
\* used, entirely numeric, or too close to the account's username.
PolicyRejects(password, user) ==
    \/ password \in {"short1!", "password", "12345678"}
    \/ password = "alice123" /\ user.username = "alice"

\* The answer with its surrounding blanks removed, for the answers of the model.
Trimmed(answer) == IF answer = BluePadded THEN Blue ELSE answer

\* The plain answer an account's stored hash was made of.
HasStoredAnswer(user) == user.security_answer.algorithm # "none"
StoredAnswer(user) == user.security_answer.hash[2]

\* The session holds what step 2 needs: an account id and a question.
HoldsRecoveryData(s) ==
    /\ "recovery_user_id" \in DOMAIN s.data
    /\ "security_question" \in DOMAIN s.data
    /\ s.data["security_question"] \notin {NoneStr, ""}

HoldsRecoveryUser(s) == "recovery_user_id" \in DOMAIN s.data

Step2Request ==
    account_recovery_step2_get \/ \E answer \in Answers : account_recovery_step2_post(answer)

Step3Request ==
    \/ account_recovery_step3_get
    \/ \E pair \in PasswordPairs : account_recovery_step3_post(pair[1], pair[2])

PasswordChanged ==
    \E id \in DOMAIN users \cap DOMAIN users' : users'[id].password # users[id].password

ToStep1(r) == r.status = 302 /\ r.to = "account_recovery_step1"

\* C5: a password changes only in a step-3 POST whose two passwords are equal
\* and pass the policy for the account of the session; a step-3 POST, in a
\* session that holds recovery_user_id, whose passwords differ or whose
\* password the policy rejects for that account leaves every account and the
\* session as they were and renders step 3 again.
C5_ResetOnlyWhenValid ==
    [][ /\ PasswordChanged =>
             \E pair \in PasswordPairs :
                 /\ account_recovery_step3_post(pair[1], pair[2])
                 /\ pair[1] = pair[2]
                 /\ ~PolicyRejects(pair[1], users[session.data["recovery_user_id"]])
        /\ \A pair \in PasswordPairs :
             ( /\ account_recovery_step3_post(pair[1], pair[2])
               /\ HoldsRecoveryUser(session)
               /\ \/ pair[1] # pair[2]
                  \/ /\ session.data["recovery_user_id"] \in DOMAIN users
                     /\ PolicyRejects(pair[1], users[session.data["recovery_user_id"]]) )
             => /\ users' = users
                /\ session' = session
                /\ uresp'.view = "step3"
                /\ uresp'.status = 200
                /\ uresp'.to = "users/account_recovery_step3.html"
                /\ uresp'.message # "" ]_vars

\* C5 witness: step 3 has reported a mismatch in a session that names an account.
C5_Witness ==
    /\ uresp.view = "step3"
    /\ uresp.message = "Passwords do not match."
    /\ HoldsRecoveryUser(session)

\* C6: a request to step 2 in a session without recovery data, and a request
\* to step 3 in a session without recovery_user_id, is redirected to step 1 and
\* changes neither an account nor the session, whatever it submits; and a
\* session whose expiry date is reached holds no data.
C6_NoSessionNoStep ==
    [][ /\ (Step2Request /\ ~HoldsRecoveryData(session)) =>
             ToStep1(uresp') /\ uresp'.view = "step2" /\ users' = users /\ session' = session
        /\ (Step3Request /\ ~HoldsRecoveryUser(session)) =>
             ToStep1(uresp') /\ uresp'.view = "step3" /\ users' = users /\ session' = session
        /\ (session'.expire_at <= now') => session'.data = EmptySession.data ]_vars

\* C6 witness: a session existed and is gone (alice's password was reset, which
\* flushed it), and step 2 has sent the client back to step 1.
C6_Witness ==
    /\ uresp.view = "step2"
    /\ ToStep1(uresp)
    /\ session = EmptySession
    /\ 1 \in DOMAIN users
    /\ ~check_password("defaultpass", users[1].password)

\* C7: a step-1 POST succeeds exactly when an account has both the submitted
\* username and the submitted e-mail address; then the session holds that
\* account's id and question, ends 600 seconds later, and the client is sent
\* to step 2; else the session is untouched, "does not exist" is reported and
\* step 1 is rendered again. No account changes.
C7_Step1Identify ==
    [][ \A username \in Usernames, email \in Emails :
          account_recovery_step1_post(username, email) =>
            LET hit == {id \in DOMAIN users : users[id].username = username
                                               /\ users[id].email = email}
            IN  /\ users' = users
                /\ IF hit # {}
                   THEN /\ \E id \in hit :
                              /\ session'.data["recovery_user_id"] = id
                              /\ session'.data["security_question"] =
                                     users[id].security_question
                        /\ session'.expire_at = now + 600
                        /\ uresp'.status = 302
                        /\ uresp'.to = "account_recovery_step2"
                   ELSE /\ session' = session
                        /\ uresp'.status = 200
                        /\ uresp'.to = "users/account_recovery_step1.html"
                        /\ uresp'.message =
                               "User with that username and email does not exist." ]_vars

\* C7 witness: step 1 has identified alice and the session ends in 600 seconds.
C7_Witness ==
    /\ uresp.view = "step1"
    /\ uresp.to = "account_recovery_step2"
    /\ HoldsRecoveryData(session)
    /\ users[session.data["recovery_user_id"]].username = "alice"
    /\ session.expire_at = now + 600

\* C8: a step-3 POST with equal passwords that pass the policy, for an account
\* that exists, stores the new password on that account alone, empties the
\* session and redirects to login; while the login redirect is the latest
\* response the session is empty, and a request to step 2 or 3 that follows
\* is redirected to step 1 and changes no account.
C8_ResetOnceThenFlushed ==
    [][ /\ \A pair \in PasswordPairs :
             LET id == SessionUserId(session) IN
             ( /\ account_recovery_step3_post(pair[1], pair[2])
               /\ HoldsRecoveryUser(session)
               /\ id \in DOMAIN users
               /\ pair[1] = pair[2]
               /\ ~PolicyRejects(pair[1], users[id]) )
             => /\ check_password(pair[1], users'[id].password)
                /\ \A other \in DOMAIN users \ {id} : users'[other] = users[other]
                /\ DOMAIN users' = DOMAIN users
                /\ session'.data = EmptySession.data
                /\ uresp'.status = 302
                /\ uresp'.to = "login"
        /\ (uresp.to = "login") => session.data = EmptySession.data
        /\ (uresp.to = "login" /\ (Step2Request \/ Step3Request)) =>
             ToStep1(uresp') /\ users' = users ]_vars

\* C8 witness: after a reset (alice's password is the new one) the client
\* asked for step 3 again and was sent to step 1.
C8_Witness ==
    /\ uresp.view = "step3"
    /\ ToStep1(uresp)
    /\ 1 \in DOMAIN users
    /\ check_password("NewPass123!", users[1].password)

\* C9: a step-2 POST is redirected to step 3 exactly when the session holds
\* recovery data for an account that exists and the submitted answer, without
\* its surrounding blanks, is the account's stored answer, letter case
\* included: for the stored answer "blue", "blue" and " blue " pass, "Blue" fails.
C9_AnswerTrimmedCaseSensitive ==
    [][ \A answer \in Answers :
          account_recovery_step2_post(answer) =>
            LET id == SessionUserId(session) IN
            ( uresp'.to = "account_recovery_step3"
              <=> /\ HoldsRecoveryData(session)
                  /\ id \in DOMAIN users
                  /\ answer # NoAnswer
                  /\ HasStoredAnswer(users[id])
                  /\ Trimmed(answer) = StoredAnswer(users[id]) ) ]_vars

\* C9 witness: step 2 has accepted an answer.
C9_Witness ==
    /\ uresp.view = "step2"
    /\ uresp.status = 302
    /\ uresp.to = "account_recovery_step3"

\* C10: a wrong answer at step 2 renders step 2 again with "Incorrect" and
\* leaves the session and the accounts as they were; the right answer is sent
\* on to step 3 however many wrong answers came before.
C10_WrongAnswerKeepsSession ==
    [][ \A answer \in Answers \ {NoAnswer} :
          LET id == SessionUserId(session) IN
          ( /\ account_recovery_step2_post(answer)
            /\ HoldsRecoveryData(session)
            /\ id \in DOMAIN users )
          => IF HasStoredAnswer(users[id]) /\ Trimmed(answer) = StoredAnswer(users[id])
             THEN uresp'.status = 302 /\ uresp'.to = "account_recovery_step3"
             ELSE /\ uresp'.view = "step2"
                  /\ uresp'.status = 200
                  /\ uresp'.to = "users/account_recovery_step2.html"
                  /\ uresp'.message = "Incorrect security answer."
                  /\ session' = session
                  /\ users' = users ]_vars

\* C10 witness: the right answer was accepted after MaxWrong wrong ones.
C10_Witness ==
    /\ uresp.view = "step2"
    /\ uresp.to = "account_recovery_step3"
    /\ wrong_answers = MaxWrong
    /\ HoldsRecoveryData(session)

\* The fields of account id that a step changes.
ChangedFields(id) == {f \in DOMAIN users[id] : users'[id][f] # users[id][f]}

Step1Request ==
    \/ account_recovery_step1_get
    \/ \E username \in Usernames, email \in Emails :
           account_recovery_step1_post(username, email)

\* C11: no request to step 1 or step 2, rejected by the rate limit or not, and
\* no request to step 3 other than one answered with the login redirect,
\* changes a field of an account; a step-3 request that is answered with the
\* login redirect changes the password of the session's account and no other
\* field of any account.
C11_RecoveryWritesOnlyPassword ==
    [][ /\ ( \/ Step1Request
             \/ Step2Request
             \/ \E view \in {"step1", "step2", "step3"} : Ratelimited(view) )
           => users' = users
        /\ Step3Request =>
             /\ DOMAIN users' = DOMAIN users
             /\ uresp'.to # "login" => users' = users
             /\ \A id \in DOMAIN users :
                    /\ ChangedFields(id) \subseteq {"password"}
                    /\ ChangedFields(id) # {} => id = SessionUserId(session) ]_vars

\* C11 witness: a reset has succeeded for alice, and the table of accounts
\* differs from the initial one in alice's password only.
C11_Witness ==
    /\ uresp.to = "login"
    /\ DOMAIN users = {1, 2}
    /\ ~check_password("defaultpass", users[1].password)
    /\ \E bobSetup \in SecuritySetups :
           users = [InitUsers(bobSetup) EXCEPT ![1].password = users[1].password]

\* The requests counted so far, in the window that ts lies in, of one address
\* at one endpoint.
Counted(c, view, ip, ts) ==
    LET key == <<view, get_window(ip, ts), ip>>
    IN  IF key \in DOMAIN c THEN c[key] ELSE 0

\* C25: every request to a recovery endpoint is counted for its address and
\* endpoint; one that finds fewer than 5 counted in the running minute is
\* handled by the view, and one that finds 5 or more is answered 403 and
\* leaves the accounts and the session as they were; accounts and session
\* change only in a step that is a request handled by the view (or, for the
\* session, by time passing), so a rejected request has no later effect.
C25_FivePerMinute ==
    [][ /\ \A view \in {"step1", "step2", "step3"}, ip \in IPs :
             ( /\ now' = now
               /\ Counted(cache', view, ip, now) = Counted(cache, view, ip, now) + 1 )
             => IF Counted(cache, view, ip, now) >= 5
                THEN /\ uresp' = Resp(view, 403, "", "")
                     /\ users' = users
                     /\ session' = session
                ELSE /\ uresp'.view = view
                     /\ uresp'.status # 403
        /\ now' = now =>
             \E view \in {"step1", "step2", "step3"}, ip \in IPs :
                 /\ Counted(cache', view, ip, now) = Counted(cache, view, ip, now) + 1
                 /\ \A v \in {"step1", "step2", "step3"}, i \in IPs :
                        <<v, i>> # <<view, ip>> =>
                            Counted(cache', v, i, now) = Counted(cache, v, i, now)
        /\ (users' # users \/ (session' # session /\ now' = now)) =>
             /\ uresp'.status # 403
             /\ \E view \in {"step1", "step2", "step3"}, ip \in IPs :
                    Counted(cache', view, ip, now) \in 1 .. 5 ]_vars

\* C25 witness: the sixth request of one address to step 3 within a minute
\* was rejected, in a session that names an account, while the other address
\* has made fewer than five.
C25_Witness ==
    /\ uresp = Resp("step3", 403, "", "")
    /\ Counted(cache, "step3", "10.0.0.1", now) = 6
    /\ Counted(cache, "step3", "10.0.0.5", now) \in 1 .. 4
    /\ HoldsRecoveryUser(session)
    /\ 1 \in DOMAIN users
    /\ check_password("defaultpass", users[1].password)

\* C27: a step-3 request that directly follows a successful step 1, with no
\* request to step 2 in between, changes no password.
C27_NoResetWithoutAnswer ==
    [][ (uresp.view = "step1" /\ uresp.status = 302) => ~PasswordChanged ]_vars

\* C29: a step-3 POST answered with the login redirect writes the submitted
\* password on the account of the session's recovery_user_id and changes no
\* other field and no other account; a successful step-1 POST puts the id and
\* question of the account it identified in the session, replacing those of
\* an earlier one, and a failed one leaves the session as it was; and the id
\* and question of the session change in no other way than by a successful
\* step 1 or by the session losing them.
C29_ResetTargetsLastIdentified ==
    [][ /\ (Step3Request /\ uresp'.to = "login") =>
             LET id == SessionUserId(session) IN
             /\ id \in DOMAIN users
             /\ DOMAIN users' = DOMAIN users
             /\ ChangedFields(id) \subseteq {"password"}
             /\ \E pair \in PasswordPairs :
                    check_password(pair[1], users'[id].password)
             /\ \A other \in DOMAIN users \ {id} : users'[other] = users[other]
        /\ \A username \in Usernames, email \in Emails :
             account_recovery_step1_post(username, email) =>
                 IF uresp'.status = 302
                 THEN \E id \in DOMAIN users :
                          /\ users[id].username = username
                          /\ users[id].email = email
                          /\ SessionUserId(session') = id
                          /\ SessionQuestion(session') = users[id].security_question
                 ELSE session' = session
        /\ ( \/ SessionUserId(session') # SessionUserId(session)
              \/ SessionQuestion(session') # SessionQuestion(session) )
             => \/ ~HoldsRecoveryUser(session')
                \/ /\ uresp'.view = "step1"
                    /\ uresp'.status = 302
                    /\ \E username \in Usernames, email \in Emails :
                           account_recovery_step1_post(username, email) ]_vars

\* C29 witness: bob's password was reset and alice's was not, and step 1 has
\* then identified alice: the session names her, with her question.
C29_Witness ==
    /\ uresp.view = "step1"
    /\ uresp.status = 302
    /\ DOMAIN users = {1, 2}
    /\ SessionUserId(session) = 1
    /\ SessionQuestion(session) = users[1].security_question
    /\ check_password("defaultpass", users[1].password)
    /\ check_password("NewPass123!", users[2].password)

(***************************************************************************)
(* Properties of the onboarding                                            *)
(***************************************************************************)
\* The client of the session is logged in as account id.
LoggedInAs(id) ==
    /\ id \in DOMAIN users
    /\ "_auth_user_id" \in DOMAIN session.data
    /\ session.data["_auth_user_id"] = id
    /\ session.data["_auth_user_hash"] = << "hmac", users[id].password >>

LoggedIn == \E id \in DOMAIN users : LoggedInAs(id)

\* The account the client is logged in as.
Me == CHOOSE id \in DOMAIN users : LoggedInAs(id)

\* C12: for a logged-in account check_first_login redirects to the forced
\* password reset exactly when first_login is true and the account is no
\* superuser, and to home in every other case; it changes neither an account
\* nor the session.
C12_FirstLoginRedirect ==
    [][ (check_first_login /\ LoggedIn) =>
            /\ uresp'.status = 302
            /\ uresp'.to = (IF users[Me].first_login = TRUE /\ users[Me].is_superuser = FALSE
                            THEN "force_password_reset"
                            ELSE "home")
            /\ users' = users
            /\ session' = session ]_vars

\* C12 witness: bob, a superuser on first login, was sent home.
C12_Witness ==
    /\ uresp.view = "check_first_login"
    /\ uresp.to = "home"
    /\ LoggedInAs(2)
    /\ users[2].first_login = TRUE
    /\ users[2].is_superuser = TRUE

\* C13: a forced-reset POST of a logged-in account with two equal passwords
\* that pass the policy makes the new password the account's password, sets
\* first_login to false, changes nothing else, leaves the client logged in as
\* that account and redirects to the security-question setup; with different
\* or policy-rejected passwords nothing changes and the form is rendered again
\* with errors.
C13_ForcedReset ==
    [][ \A pair \in PasswordPairs, me \in DOMAIN users :
          (force_password_reset_post(pair[1], pair[2]) /\ LoggedInAs(me)) =>
            IF pair[1] = pair[2] /\ ~PolicyRejects(pair[1], users[me])
            THEN /\ check_password(pair[1], users'[me].password)
                 /\ users'[me].first_login = FALSE
                 /\ DOMAIN users' = DOMAIN users
                 /\ \A id \in DOMAIN users :
                        ChangedFields(id) \subseteq
                            (IF id = me THEN {"password", "first_login"} ELSE {})
                 /\ LoggedInAs(me)'
                 /\ uresp'.status = 302
                 /\ uresp'.to = "setup_security_question"
            ELSE /\ users' = users
                 /\ session' = session
                 /\ uresp'.status = 200
                 /\ uresp'.to = "user/force_password_reset.html"
                 /\ uresp'.message # "" ]_vars

\* C13 witness: bob has reset his password on first login and is still logged in.
C13_Witness ==
    /\ uresp.view = "force_password_reset"
    /\ uresp.to = "setup_security_question"
    /\ LoggedInAs(2)
    /\ check_password("NewPass123!", users[2].password)
    /\ users[2].first_login = FALSE

\* The setup answers of the model without their surrounding blanks.
TrimmedSetup(answer) ==
    CASE answer = BluePadded -> Blue
      [] answer = Blank -> <<>>
      [] OTHER -> answer

\* The account has a question and a stored answer.
HasSetup(user) ==
    user.security_question \notin {NoneStr, ""} /\ HasStoredAnswer(user)

\* A setup POST the form accepts: an answer is given and is not blank.
AcceptedSetup(answer) == answer # NoAnswer /\ TrimmedSetup(answer) # <<>>

\* The setup is one-time: with a question and an answer on the account, a GET
\* and a POST are redirected home and change no account.
SetupIsOneTime ==
    /\ (setup_security_question_get /\ LoggedIn /\ HasSetup(users[Me])) =>
           uresp'.status = 302 /\ uresp'.to = "home" /\ users' = users
    /\ \A question \in Questions, answer \in SetupAnswers :
         ( /\ setup_security_question_post(question, answer)
           /\ LoggedIn
           /\ HasSetup(users[Me]) )
         => uresp'.status = 302 /\ uresp'.to = "home" /\ users' = users

\* C14 as claimed: the setup is one-time, and a valid POST of an account
\* without a complete setup stores the question and a hash that
\* check_security_answer accepts for the submitted answer and rejects for any
\* different one.
C14_SetupStoresSubmittedAnswer ==
    [][ /\ SetupIsOneTime
        /\ \A question \in Questions, answer \in SetupAnswers :
             ( /\ setup_security_question_post(question, answer)
               /\ LoggedIn
               /\ ~HasSetup(users[Me])
               /\ AcceptedSetup(answer) )
             => /\ users'[Me].security_question =
                       (IF question = "" THEN NoneStr ELSE question)
                /\ check_security_answer(users'[Me], answer)
                /\ \A other \in SetupAnswers \ {answer, NoAnswer} :
                       ~check_security_answer(users'[Me], other) ]_vars

\* C14 amended: the setup is one-time, and a valid POST of an account without
\* a complete setup stores the question and a hash of the answer without its
\* surrounding blanks: check_security_answer accepts the trimmed answer and
\* rejects every other text.
C14_SetupStoresTrimmedAnswer ==
    [][ /\ SetupIsOneTime
        /\ \A question \in Questions, answer \in SetupAnswers :
             ( /\ setup_security_question_post(question, answer)
               /\ LoggedIn
               /\ ~HasSetup(users[Me])
               /\ AcceptedSetup(answer) )
             => /\ users'[Me].security_question =
                       (IF question = "" THEN NoneStr ELSE question)
                /\ check_security_answer(users'[Me], TrimmedSetup(answer))
                /\ \A other \in (SetupAnswers \cup {BlueCapital})
                                    \ {TrimmedSetup(answer), NoAnswer} :
                       ~check_security_answer(users'[Me], other)
                /\ \A id \in DOMAIN users :
                       ChangedFields(id) \subseteq
                           (IF id = Me THEN {"security_question", "security_answer"}
                            ELSE {}) ]_vars

\* C14 witness: bob, who had no setup, has stored a question and the answer
\* "blue", and a later request to the setup was redirected home.
C14_Witness ==
    /\ uresp.view = "setup_security_question"
    /\ uresp.to = "home"
    /\ uresp.message = ""
    /\ LoggedInAs(2)
    /\ users[2].security_question = "Your favorite food?"
    /\ check_security_answer(users[2], Blue)

(***************************************************************************)
(* Properties of the criminals CSV import and of add_criminal              *)
(***************************************************************************)
\* The number of rows of an offense table that carry a triple.
CountOf(rows, triple) == Cardinality({i \in 1..Len(rows) : rows[i] = triple})

TriplesOf(rows) == {rows[i] : i \in 1..Len(rows)}

\* One offense table before and after a step: no triple gains a second row,
\* and the rows on file stay where they are.
NoDuplicateAdded(before, after) ==
    /\ Len(after) >= Len(before)
    /\ SubSeq(after, 1, Len(before)) = before
    /\ \A t \in TriplesOf(after) :
           CountOf(after, t) <= (IF CountOf(before, t) = 0 THEN 1 ELSE CountOf(before, t))

\* A new link to row id of an offense table references a row that was on file
\* before the step if the row's triple was.
ReferencesExisting(before, after, id) ==
    id # NullId =>
        /\ id \in 1..Len(after)
        /\ CountOf(before, after[id]) > 0 => id <= Len(before)

\* C15: no step of add_criminal or of the CSV import gives an offense triple a
\* second row in the federal or in the Virginia table, and every link a step
\* creates for a triple that was on file references a row that was on file.
C15_OffenseIdempotent ==
    [][ /\ NoDuplicateAdded(fedOffenses, fedOffenses')
        /\ NoDuplicateAdded(vaOffenses, vaOffenses')
        /\ \A k \in (Len(links) + 1)..Len(links') :
               /\ ReferencesExisting(fedOffenses, fedOffenses', links'[k].federal_offense)
               /\ ReferencesExisting(vaOffenses, vaOffenses', links'[k].vacode_offense) ]_vars

\* C15 witness: two persons are linked to the one row of the federal table,
\* and the rows of two imports have carried that triple.
C15_Witness ==
    /\ Len(fedOffenses) = 1
    /\ Len(criminals) >= 2
    /\ response.view = "mass_add"
    /\ response.count = 1
    /\ \E i, j \in 1..Len(links) :
           /\ links[i].criminal # links[j].criminal
           /\ links[i].federal_offense = 1
           /\ links[j].federal_offense = 1

\* C16: no link has both its federal offense and its Virginia offense set.
C16_AtMostOneVariant ==
    \A i \in 1..Len(links) :
        ~(links[i].federal_offense # NullId /\ links[i].vacode_offense # NullId)

\* C16 witness: the import has created a link to a federal offense and a link
\* to a Virginia offense.
C16_Witness ==
    /\ \E i \in 1..Len(links) :
           links[i].federal_offense # NullId /\ links[i].vacode_offense = NullId
    /\ \E i \in 1..Len(links) :
           links[i].federal_offense = NullId /\ links[i].vacode_offense # NullId

\* The headers that match the expected one without regard to case and
\* surrounding blanks.
HeaderAccepted(header) ==
    header \in {<< "first_name", "last_name", "offense_type", "offense_class",
                   "description", "offense_source" >>,
                << " First_Name", "last_name", "offense_type", "offense_class",
                   "description", "offense_source" >>}

\* The rows of six fields of a file, in order.
WellFormed(rows) == SelectSeq(rows, LAMBDA r : Len(r) = 6)

\* Processing a row raises an exception where the offense it names is on file
\* more than once in the table of its jurisdiction.
RowFails(r) ==
    CountOf(IF r[6] \in {"federal", "Federal"} THEN fedOffenses ELSE vaOffenses,
            [offense_type |-> r[3], offense_class |-> r[4], description |-> r[5]]) > 1

FileFails(file) == \E i \in 1..Len(file.rows) :
                       Len(file.rows[i]) = 6 /\ RowFails(file.rows[i])

\* C17: an import of a file whose header does not match, or one of whose rows
\* raises an exception, leaves the tables of persons, offenses and links as
\* they were and reports no success.
C17_ImportAllOrNothing ==
    [][ \A file \in CsvFiles, resolves \in BOOLEAN :
          ( /\ mass_add_criminals_post(file, resolves)
            /\ ~HeaderAccepted(file.header) \/ FileFails(file) )
          => /\ criminals' = criminals
             /\ fedOffenses' = fedOffenses
             /\ vaOffenses' = vaOffenses
             /\ links' = links
             /\ response'.message # "Successfully added" ]_vars

\* C17 witness: an import has failed on a row after it had passed over a row
\* of three fields, and the tables hold nothing of it.
C17_Witness ==
    /\ response.view = "mass_add"
    /\ response.message = "Error processing file: MultipleObjectsReturned"
    /\ response.warnings = 1
    /\ criminals = << >>
    /\ fedOffenses = << >>
    /\ links = << >>

\* The name a cell spells, without regard to case and surrounding blanks.
NameOf(cell) ==
    CASE cell \in {"John", " john ", "john"} -> "john"
      [] cell \in {"Doe", "DOE"} -> "doe"
      [] cell = "Jane" -> "jane"
      [] cell = "Smith" -> "smith"

SameName(r1, r2) == NameOf(r1[1]) = NameOf(r2[1]) /\ NameOf(r1[2]) = NameOf(r2[2])

\* Row k of the well-formed rows starts a run of rows with one name.
StartsRun(wf, k) == k = 1 \/ ~SameName(wf[k - 1], wf[k])

\* The number of the run that row k belongs to.
RunNumber(wf, k) == Cardinality({j \in 1..k : StartsRun(wf, j)})

\* An import that is carried out: a .csv file, a matching header, no failing row.
CarriedOut(file) ==
    file.name = "criminals.csv" /\ HeaderAccepted(file.header) /\ ~FileFails(file)

\* C18: an import that is carried out creates one person per maximal run of
\* adjacent well-formed rows with the same name (case and surrounding blanks
\* disregarded) and one link per well-formed row, from the person of the
\* row's run; a name that comes again after another name is a new person.
C18_OnePersonPerRun ==
    [][ \A file \in CsvFiles, resolves \in BOOLEAN :
          (mass_add_criminals_post(file, resolves) /\ CarriedOut(file)) =>
            LET wf == WellFormed(file.rows) IN
            /\ Len(criminals') = Len(criminals) + RunNumber(wf, Len(wf))
            /\ SubSeq(criminals', 1, Len(criminals)) = criminals
            /\ Len(links') = Len(links) + Len(wf)
            /\ SubSeq(links', 1, Len(links)) = links
            /\ \A k \in 1..Len(wf) :
                   /\ links'[Len(links) + k].criminal = Len(criminals) + RunNumber(wf, k)
                   /\ NameOf(criminals'[Len(criminals) + RunNumber(wf, k)].first_name)
                          = NameOf(wf[k][1])
                   /\ NameOf(criminals'[Len(criminals) + RunNumber(wf, k)].last_name)
                          = NameOf(wf[k][2]) ]_vars

\* C18 witness: two adjacent rows for John Doe, the second one spelled
\* " john ", "DOE", have created one person with two links.
C18_Witness ==
    /\ response.view = "mass_add"
    /\ response.message = "Successfully added"
    /\ response.warnings = 0
    /\ Len(criminals) = 1
    /\ Len(links) = 2
    /\ links[1].criminal = 1 /\ links[1].federal_offense # NullId
    /\ links[2].criminal = 1 /\ links[2].vacode_offense # NullId

\* C19: an import that is carried out leaves the tables as the import of the
\* same file without its rows of fewer or more than six fields would, counts
\* the well-formed rows alone in the total it reports, and warns once per
\* other row.
C19_MalformedRowIgnored ==
    [][ \A file \in CsvFiles, resolves \in BOOLEAN :
          (mass_add_criminals_post(file, resolves) /\ CarriedOut(file)) =>
            LET wf == WellFormed(file.rows)
                out == ImportRows(wf, 1, ImportStart)
            IN  /\ criminals' = out.criminals
                /\ fedOffenses' = out.fedOffenses
                /\ vaOffenses' = out.vaOffenses
                /\ links' = out.links
                /\ response'.message = "Successfully added"
                /\ response'.count = Len(wf)
                /\ response'.warnings = Len(file.rows) - Len(wf) ]_vars

\* C19 witness: of three rows the middle one had three fields; the rows around
\* it, both for John Doe, have created one person with two links, and the
\* total reported is 2.
C19_Witness ==
    /\ response.view = "mass_add"
    /\ response.message = "Successfully added"
    /\ response.count = 2
    /\ response.warnings = 1
    /\ Len(criminals) = 1
    /\ Len(links) = 2

(***************************************************************************)
(* Properties of the user import                                           *)
(***************************************************************************)
\* The rows of four fields of a file, in order.
WellFormedUsers(rows) == SelectSeq(rows, LAMBDA r : Len(r) = 4)

\* username is what the address spells before its first "@".
IsLocalPart(username, email) ==
    \E n \in 0..(Len(email) - 1) :
        /\ email[n + 1] = "@"
        /\ \A j \in 1..n : email[j] # "@"
        /\ username = Join(SubSeq(email, 1, n))

\* The usernames the addresses of the model give.
ImportNames == {"carol", "Dave", "alice", "erin", ""}

\* Row k of the well-formed rows cannot be saved: its address gives no
\* username, or one that an account on file or an earlier row has, or its
\* date is not written year-month-day.
UserRowFails(wf, k) ==
    \/ IsLocalPart("", wf[k][3])
    \/ wf[k][4] \notin {"2027-01-31", "2027-06-30"}
    \/ \E id \in DOMAIN users : IsLocalPart(users[id].username, wf[k][3])
    \/ \E j \in 1..(k - 1), u \in ImportNames :
           IsLocalPart(u, wf[j][3]) /\ IsLocalPart(u, wf[k][3])

UserFileFails(file) ==
    \E k \in 1..Len(WellFormedUsers(file.rows)) :
        UserRowFails(WellFormedUsers(file.rows), k)

\* A file the import takes up: a .csv name and a header that matches without
\* regard to case and surrounding blanks.
UserFileTaken(file) ==
    /\ file.name = "users.csv"
    /\ file.header \in {<< "first_name", "last_name", "email", "expiration_date" >>,
                        << "first_name", "last_name", "Email ", "expiration_date" >>}

\* C20: an import that returns a manifest has kept the accounts on file and
\* added one account per row of four fields, with first_login set and the
\* username that the row's address spells before "@", and the manifest has,
\* after its header, one row per such row with that username and a password
\* that the account's stored hash accepts; an import of a file one of whose
\* rows cannot be saved leaves the accounts as they were and returns no
\* manifest, and so does one of a file that is not taken up.
C20_UserImportAllOrNothing ==
    [][ (uresp'.view = "mass_add_users" /\ uresp'.csv_file # NoFile) =>
            LET file == uresp'.csv_file
                wf == WellFormedUsers(file.rows)
                new == DOMAIN users' \ DOMAIN users
                manifest == uresp'.manifest
            IN  IF UserFileTaken(file) /\ ~UserFileFails(file)
                THEN /\ uresp'.status = 200
                     /\ \A id \in DOMAIN users :
                            id \in DOMAIN users' /\ users'[id] = users[id]
                     /\ Cardinality(new) = Len(wf)
                     /\ Len(manifest) = Len(wf) + 1
                     /\ \A k \in 1..Len(wf) : \E id \in new :
                            /\ users'[id].first_login
                            /\ IsLocalPart(users'[id].username, wf[k][3])
                            /\ manifest[k + 1][4] = users'[id].username
                            /\ check_password(manifest[k + 1][5], users'[id].password)
                ELSE /\ users' = users
                     /\ uresp'.status \in {302, 500}
                     /\ manifest = NoManifest ]_vars

\* C20 witness: a file with the rows of Carol and Dave around a row of three
\* fields has been imported: both accounts are on file next to alice and bob,
\* with first_login set, and the manifest names them with their passwords.
C20_Witness ==
    /\ uresp.view = "mass_add_users"
    /\ uresp.status = 200
    /\ uresp.warnings = 1
    /\ Len(uresp.manifest) = 3
    /\ DOMAIN users = 1..4
    /\ users[3].username = "carol" /\ users[3].first_login
    /\ users[4].username = "Dave" /\ users[4].first_login
    /\ uresp.manifest[2][4] = "carol"
    /\ check_password(uresp.manifest[2][5], users[3].password)
    /\ uresp.manifest[3][4] = "Dave"
    /\ check_password(uresp.manifest[3][5], users[4].password)


(***************************************************************************)
(* Properties of the expiration of accounts                                *)
(***************************************************************************)
\* C23: is_expired() returns True exactly when the account's expiration date
\* is set and earlier than today's date, and False in every other case: for
\* a date of today, a later date, and no date.
C23_ExpiredIffPast ==
    [][ \A id \in DOMAIN users :
          is_expired_call(id) =>
            LET date == users[id].expiration_date IN
            uresp'.result = IF date # NoDate /\ date < UtcDate(now)
                            THEN "True" ELSE "False" ]_vars

\* C24: the sweep deletes exactly the accounts whose expiration date is set
\* and at or before the current date, leaves every other account as it was,
\* reports how many it deleted, and leaves nothing for a second run: run
\* again on the result, it would match no account and report 0.
C24_SweepDeletesDue ==
    [][ delete_expired_users =>
          LET due == {id \in DOMAIN users :
                         /\ users[id].expiration_date # NoDate
                         /\ users[id].expiration_date <= LocalDate(now)}
          IN  /\ DOMAIN users' = DOMAIN users \ due
              /\ \A id \in DOMAIN users' : users'[id] = users[id]
              /\ uresp'.count = Cardinality(due)
              /\ uresp'.message = <<"Deleted ", Cardinality(due), " expired users.">>
              /\ expired_users' = {}
              /\ due = {} => users' = users /\ uresp'.count = 0 ]_vars

\* C24 witness: a sweep has deleted bob alone, and alice, whose date is
\* ahead, is still on file.
C24_Witness ==
    /\ uresp.view = "delete_expired_users"
    /\ uresp.count = 1
    /\ DOMAIN users = {1}
    /\ users[1].expiration_date > LocalDate(now)

\* C28: the sweep deletes an account only if is_expired() is True for it at
\* the time of the sweep; an account that expires today survives.
C28_SweepOnlyExpired ==
    [][ delete_expired_users =>
          \A id \in DOMAIN users \ DOMAIN users' :
              is_expired(users[id]) = "True" ]_vars

C26_SavedAsSubmitted ==
    [][ \A data \in CreateUserPosts :
          (create_user_post(data) /\ uresp'.to = "home") =>
            \E id \in DOMAIN users' \ DOMAIN users :
                /\ DOMAIN users' = DOMAIN users \cup {id}
                /\ users'[id].username = data.username
                /\ users'[id].email = Join(data.email)
                /\ users'[id].first_name = data.first_name
                /\ users'[id].last_name = data.last_name
                /\ users'[id].expiration_date =
                       (IF data.expiration_date = "" THEN NoneStr
                        ELSE data.expiration_date)
                /\ check_password(data.password1, users'[id].password) ]_vars

====
